---- MODULE Spec2Model ----
(***************************************************************************)
(* Voice playback of the Discord bot: play requests (DiscordBot), the      *)
(* per-guild playback queue (VoicePlaybackQueue.enqueue) and the delivery  *)
(* task (DiscordBot.playAudioBuffer / flushSilenceFrames) driving the      *)
(* voice connection of a guild.                                            *)
(*                                                                         *)
(* JavaScript runs the code between two awaits atomically, so every action *)
(* below is one such synchronous stretch of a handler.  Requests, tasks    *)
(* and connections are kept per guild, in the order they were created;     *)
(* nothing in the code relates the positions of two guilds' entries.       *)
(***************************************************************************)
EXTENDS Integers, Sequences, FiniteSets, TLC

\* ------------------------------------------------------------------ bounds
\* Play requests submitted in one run, all guilds together.
MaxRequests == 2

\* ------------------------------------------------------------ value spaces
Guilds == {"g1", "g2"}
Channels == {"c1", "c2"}

NoConnection == 0

\* Promise identities: the queue map compares promises by identity (===).
ResolvedPromise == <<"resolved", "", 0>>
NextPromise(g, i) == <<"next", g, i>>
FinallyPromise(g, i) == <<"finally", g, i>>
NoEntry == <<"none", "", 0>>

VARIABLES
    requests,          \* per guild, the play requests in submission order
    tasks,             \* per guild, the playback tasks in enqueue() order
    queues,            \* VoicePlaybackQueue.queues : guild -> stored promise
    conns,             \* per guild, every VoiceConnection object created
    voiceConnections,  \* the library's registry read by getVoiceConnection
    voice,             \* the fields of the VoiceService object
    call,              \* the synthesizeSpeech call being followed
    document,          \* runtime-settings.json on disk
    bot,               \* the settings fields of the DiscordBot object
    writes,            \* the writeFile calls on the document still in flight
    op,                \* the public voice operation being followed
    fn                 \* the helper function being applied, with its result

vars == <<requests, tasks, queues, conns, voiceConnections, voice, call,
          document, bot, writes, op, fn>>

\* The variables by owner.
delivery == <<requests, tasks, queues, conns, voiceConnections>>
service == <<voice, call>>
admin == <<document, bot, writes>>

\* What the delivery side, and what a synthesizeSpeech call, never touches.
offDelivery == <<service, admin, op, fn>>
offService == <<delivery, admin, op, fn>>

TaskIds(g) == 1..Len(tasks[g])
RequestIds(g) == 1..Len(requests[g])
ConnIds(g) == 1..Len(conns[g])

\* Positions a request, a task or a connection of a guild can have.
Slots == 1..MaxRequests

RECURSIVE SumLen(_, _)
SumLen(f, S) ==
    IF S = {} THEN 0
    ELSE LET g == CHOOSE x \in S : TRUE IN Len(f[g]) + SumLen(f, S \ {g})

\* ------------------------------------------------------ the voice transport
\* The transport state of one guild, as one synchronous stretch of code
\* sees and changes it.
Transport(g) == [conns |-> conns[g], reg |-> voiceConnections[g]]

getVoiceConnection(ts) == ts.reg

\* connection.destroy(): the connection is dead and leaves the registry.
\* `by` records which code destroyed it.
destroy(ts, c, by) ==
    [conns |-> [ts.conns EXCEPT ![c].status = "destroyed", ![c].destroyedBy = by],
     reg   |-> IF ts.reg = c THEN NoConnection ELSE ts.reg]

\* joinVoiceChannel({channelId, guildId}): a new connection, registered for
\* the guild; `over` records the channel the guild was still bound to when
\* the join was issued.
joinVoiceChannel(ts, ch) ==
    LET live == {c \in 1..Len(ts.conns) : ts.conns[c].status # "destroyed"} IN
    [conns |-> Append(ts.conns,
                  [channel |-> ch, status |-> "signalling", destroyedBy |-> "none",
                   over |-> IF live = {} THEN "none"
                            ELSE ts.conns[CHOOSE c \in live : TRUE].channel]),
     reg   |-> Len(ts.conns) + 1]

\* -------------------------------------------------------------- the queue
\* const previous = this.queues.get(guildId) ?? Promise.resolve()
\* (mutants: previous is never read; one chain shared by all guilds)
PreviousOfAlwaysResolved(q, g) == ResolvedPromise

PreviousOfSharedChain(q, g) ==
    IF \E h \in Guilds : q[h] # NoEntry
    THEN q[CHOOSE h \in Guilds : q[h] # NoEntry]
    ELSE ResolvedPromise

PreviousOf(q, g) == IF q[g] = NoEntry THEN ResolvedPromise ELSE q[g]

\* A promise of a chain is settled: next once its task has finished,
\* next.finally(cb) once cb has run.
\* (mutant: `.then(() => { task(); })`, the task's promise is not awaited)
PromiseSettledOnStart(p) ==
    CASE p[1] = "resolved" -> TRUE
      [] p[1] = "next"     -> tasks[p[2]][p[3]].st # "pending"
      [] p[1] = "finally"  -> tasks[p[2]][p[3]].st # "pending"

PromiseSettled(p) ==
    CASE p[1] = "resolved" -> TRUE
      [] p[1] = "next"     -> tasks[p[2]][p[3]].st = "settled"
      [] p[1] = "finally"  -> tasks[p[2]][p[3]].cleaned

\* next = ... .then(() => task()).catch(log): the handle given to the caller.
\* (mutant: without the trailing catch)
HandleOutcomeNoCatch(outcome) == IF outcome = "fail" THEN "rejected" ELSE "resolved"

HandleOutcome(outcome) == "resolved"

NewTask(r, ch, prev) ==
    [req |-> r, channel |-> ch, previous |-> prev,
     st |-> "pending", pc |-> "queued", outcome |-> "none", failedAt |-> "none",
     handle |-> "pending", cleaned |-> FALSE, runs |-> 0,
     conn |-> NoConnection, subscribed |-> FALSE, played |-> FALSE,
     stopped |-> FALSE, flush |-> "none"]

\* The task's promise settles: next settles with it.
Settle(t, outcome, where) ==
    [t EXCEPT !.st = "settled", !.pc = "done", !.outcome = outcome,
              !.failedAt = where, !.handle = HandleOutcome(outcome)]

\* finally { subscription.unsubscribe(); audioPlayer.stop(true); }
\* (mutant: no finally block, the player stays subscribed)
FinallyKeepsPlayer(t) == t

Finally(t) == [t EXCEPT !.subscribed = FALSE, !.stopped = TRUE]

\* ------------------------------------------------------------------- Init
\* ------------------------------------------------------- the VoiceService
TTSProviders == {"openai", "elevenlabs", "playht", "coqui", "azure", "google"}
AudioFormats == {"wav", "mp3", "opus"}

\* Every VoiceService the constructor can build: the credentials are kept as
\* present/absent, which is all the code asks of them.
VoiceServices ==
    [provider : TTSProviders, voiceName : {"alloy", "en-US-Neural2-F"},
     enabled : BOOLEAN, audioFormat : AudioFormats,
     openaiClient : BOOLEAN, elevenLabsApiKey : BOOLEAN, googleApiKey : BOOLEAN]

\* The service DiscordBot builds when every key is set.
BotVoiceService ==
    [provider |-> "openai", voiceName |-> "alloy",
     enabled |-> TRUE, audioFormat |-> "wav",
     openaiClient |-> TRUE, elevenLabsApiKey |-> TRUE, googleApiKey |-> TRUE]

\* (mutant: the enabled flag is not consulted)
isEnabledIgnoresFlag(v) ==
    CASE v.provider = "openai"     -> v.openaiClient
      [] v.provider = "elevenlabs" -> v.elevenLabsApiKey
      [] v.provider = "google"     -> v.googleApiKey
      [] OTHER                     -> FALSE

\* (mutant: only the OpenAI client is looked at, whatever backend is selected)
isEnabledChecksOpenAI(v) == v.enabled /\ v.openaiClient

isEnabled(v) ==
    IF ~v.enabled THEN FALSE
    ELSE CASE v.provider = "openai"     -> v.openaiClient
           [] v.provider = "elevenlabs" -> v.elevenLabsApiKey
           [] v.provider = "google"     -> v.googleApiKey
           [] OTHER                     -> FALSE

\* What a synthesizeSpeech call ends with: a {buffer, format} or an Error.
NoResult ==
    [kind |-> "none", error |-> "none", status |-> 0, detail |-> "none",
     buffer |-> "none", format |-> "none"]

Result(buffer, format) == [NoResult EXCEPT !.kind = "ok", !.buffer = buffer, !.format = format]

\* new Error(message): status and detail are what the message interpolates.
NewError(message, status, detail) ==
    [NoResult EXCEPT !.kind = "error", !.error = message, !.status = status, !.detail = detail]

\* No answer from a backend (yet).
NoResponse == [status |-> 0, body |-> "none"]

\* No synthesizeSpeech call made yet.
NoCall ==
    [pc |-> "idle", backend |-> "none", formatOverride |-> "none",
     format |-> "none", sent |-> 0, response |-> NoResponse, result |-> NoResult]

\* The responses a backend is given to answer with: fetch's response.status
\* and the body (audio, nothing, or the error text).
Responses ==
    {[status |-> 200, body |-> "audio"], [status |-> 200, body |-> "empty"],
     [status |-> 401, body |-> "bad key"], [status |-> 500, body |-> "overloaded"]}

\* response.ok
ResponseOk(r) == r.status \in 200..299

\* Nothing applied, nothing invoked, nothing loaded.
NoApplication == [name |-> "none"]
NoOperation == [name |-> "none"]
DEFAULT_SETTINGS ==
    [chatModelPreset |-> "balanced", ttsProvider |-> "openai", ttsVoice |-> "alloy"]
NoDocument == [state |-> "missing", fields |-> DEFAULT_SETTINGS]
NoReply == [text |-> "none", provider |-> "none", voice |-> "none"]
Users == {"u1", "u2"}
Undefined == "undefined"
NoPreference ==
    [set |-> FALSE, mode |-> Undefined, language |-> Undefined,
     lastVoiceChannelId |-> Undefined, lastGuildId |-> Undefined]
NoBot ==
    [constructed |-> FALSE, runtimeSettings |-> DEFAULT_SETTINGS,
     currentTtsProvider |-> "openai", voicePreset |-> "alloy", commands |-> 0,
     returned |-> NoReply, userVoicePreferences |-> [u \in Users |-> NoPreference]]

\* Everything outside the part a specification follows stays as it is here.
Offstage(vs) ==
    /\ "delivery" \in vs =>
          /\ requests = [g \in Guilds |-> <<>>]
          /\ tasks = [g \in Guilds |-> <<>>]
          /\ queues = [g \in Guilds |-> NoEntry]
          /\ conns = [g \in Guilds |-> <<>>]
          /\ voiceConnections = [g \in Guilds |-> NoConnection]
    /\ "service" \in vs => voice = BotVoiceService /\ call = NoCall
    /\ "admin" \in vs => document = NoDocument /\ bot = NoBot /\ writes = <<>>
    /\ "op" \in vs => op = NoOperation
    /\ "fn" \in vs => fn = NoApplication

\* ------------------------------------------------------------------ Init
Init ==
    /\ requests = [g \in Guilds |-> <<>>]
    /\ tasks = [g \in Guilds |-> <<>>]
    /\ queues = [g \in Guilds |-> NoEntry]
    /\ conns = [g \in Guilds |-> <<>>]
    /\ voiceConnections = [g \in Guilds |-> NoConnection]
    /\ Offstage({"service", "admin", "op", "fn"})

\* --------------------------------------------------------- play requests
\* handleVoiceSpeakCommand up to `await synthesizeSpeech(...)`, for a member
\* found in voice channel ch of guild g.
handleVoiceSpeakCommand(g, ch) ==
    /\ SumLen(requests, Guilds) < MaxRequests
    /\ requests' = [requests EXCEPT ![g] =
                      Append(@, [channel |-> ch, pc |-> "synth",
                                 result |-> "none", task |-> 0])]
    /\ UNCHANGED <<tasks, queues, conns, voiceConnections>>
    /\ UNCHANGED offDelivery

\* VoicePlaybackQueue.enqueue(guildId, task), called by enqueueVoicePlayback.
enqueue(g, r, ch) ==
    LET i == Len(tasks[g]) + 1
    IN  /\ tasks' = [tasks EXCEPT ![g] = Append(@, NewTask(r, ch, PreviousOf(queues, g)))]
        /\ queues' = [queues EXCEPT ![g] = FinallyPromise(g, i)]

\* synthesizeSpeech returned bytes: enqueue the playback and answer.
synthesisReturns(g, r) ==
    /\ r \in RequestIds(g)
    /\ requests[g][r].pc = "synth"
    /\ enqueue(g, r, requests[g][r].channel)
    /\ requests' = [requests EXCEPT ![g][r] =
                      [@ EXCEPT !.pc = "done", !.result = "queued",
                                !.task = Len(tasks[g]) + 1]]
    /\ UNCHANGED <<conns, voiceConnections>>
    /\ UNCHANGED offDelivery

\* synthesizeSpeech threw: answer, enqueue nothing.
\* (mutant: the enqueue sits after the try/catch and runs on failure too)
synthesisThrowsEnqueues(g, r) ==
    /\ r \in RequestIds(g)
    /\ requests[g][r].pc = "synth"
    /\ enqueue(g, r, requests[g][r].channel)
    /\ requests' = [requests EXCEPT ![g][r] =
                      [@ EXCEPT !.pc = "done", !.result = "notConfigured"]]
    /\ UNCHANGED <<conns, voiceConnections>>
    /\ UNCHANGED offDelivery

synthesisThrows(g, r) ==
    /\ r \in RequestIds(g)
    /\ requests[g][r].pc = "synth"
    /\ requests' = [requests EXCEPT ![g][r] =
                      [@ EXCEPT !.pc = "done", !.result = "notConfigured"]]
    /\ UNCHANGED <<tasks, queues, conns, voiceConnections>>
    /\ UNCHANGED offDelivery

\* ----------------------------------------------------- the delivery task
SetTransport(g, ts) ==
    /\ conns' = [conns EXCEPT ![g] = ts.conns]
    /\ voiceConnections' = [voiceConnections EXCEPT ![g] = ts.reg]

SetTask(g, i, t) == tasks' = [tasks EXCEPT ![g][i] = t]

\* playAudioBuffer, lines 490-507: reuse the guild's connection when it is
\* bound to the requested channel, otherwise destroy it and join.
\* (mutant: the stale connection is dropped without destroy())
ConnectWithoutDestroy(ts, ch) ==
    LET existing   == getVoiceConnection(ts)
        stale      == existing # NoConnection /\ ts.conns[existing].channel # ch
        connection == IF stale THEN NoConnection ELSE existing
        ts2        == IF connection = NoConnection
                      THEN joinVoiceChannel(ts, ch) ELSE ts
    IN  [ts |-> ts2,
         connection |-> IF connection = NoConnection THEN ts2.reg ELSE connection]

\* (mutant: every task joins afresh, whatever is registered)
ConnectAlwaysJoin(ts, ch) ==
    LET ts2 == joinVoiceChannel(ts, ch)
    IN  [ts |-> ts2, connection |-> ts2.reg]

Connect(ts, ch) ==
    LET existing   == getVoiceConnection(ts)
        stale      == existing # NoConnection /\ ts.conns[existing].channel # ch
        ts1        == IF stale THEN destroy(ts, existing, "switch") ELSE ts
        connection == IF stale THEN NoConnection ELSE existing
        ts2        == IF connection = NoConnection
                      THEN joinVoiceChannel(ts1, ch) ELSE ts1
    IN  [ts |-> ts2,
         connection |-> IF connection = NoConnection THEN ts2.reg ELSE connection]

\* The chain reaches `.then(() => task())`: the task body runs up to
\* `await entersState(connection, Ready, 30_000)`.
StartTask(g, i) ==
    LET t == tasks[g][i]
        r == Connect(Transport(g), t.channel)
    IN  /\ SetTask(g, i, [t EXCEPT !.st = "running", !.pc = "awaitReady",
                                   !.runs = @ + 1, !.conn = r.connection])
        /\ SetTransport(g, r.ts)
        /\ UNCHANGED <<requests, queues>>

\* (mutant: the chain without its catch handlers, previous.then(() => task()):
\* a failed previous task rejects the chain and the task is skipped)
playAudioBufferNoCatch(g, i) ==
    /\ i \in TaskIds(g)
    /\ tasks[g][i].st = "pending"
    /\ PromiseSettled(tasks[g][i].previous)
    /\ IF /\ tasks[g][i].previous[1] = "finally"
          /\ tasks[g][tasks[g][i].previous[3]].outcome \in {"fail", "skipped"}
       THEN /\ SetTask(g, i, [tasks[g][i] EXCEPT !.st = "settled", !.pc = "done",
                                  !.outcome = "skipped", !.handle = "rejected"])
            /\ UNCHANGED <<requests, queues, conns, voiceConnections>>
       ELSE StartTask(g, i)
    /\ UNCHANGED offDelivery

playAudioBuffer(g, i) ==
    /\ i \in TaskIds(g)
    /\ tasks[g][i].st = "pending"
    /\ PromiseSettled(tasks[g][i].previous)
    /\ StartTask(g, i)
    /\ UNCHANGED offDelivery

\* The voice connection reaches the Ready state (network handshake done).
connectionReady(g, c) ==
    /\ c \in ConnIds(g)
    /\ conns[g][c].status = "signalling"
    /\ conns' = [conns EXCEPT ![g][c].status = "ready"]
    /\ UNCHANGED <<requests, tasks, queues, voiceConnections>>
    /\ UNCHANGED offDelivery

\* The voice connection loses its session for good (kicked, network gone):
\* it stays Disconnected until somebody destroys it.
connectionLost(g, c) ==
    /\ c \in ConnIds(g)
    /\ conns[g][c].status = "ready"
    /\ conns' = [conns EXCEPT ![g][c].status = "disconnected"]
    /\ UNCHANGED <<requests, tasks, queues, voiceConnections>>
    /\ UNCHANGED offDelivery

\* createAudioPlayer() with its default behaviour: the player sends frames
\* only while a subscribed connection is Ready and pauses itself otherwise,
\* so a resource plays to its end only then.
\* (mutant: a player created to keep playing without a subscriber)
PlayableAlways(g, t) == TRUE

Playable(g, t) == t.subscribed /\ conns[g][t.conn].status = "ready"

\* if (!subscription) { connection.destroy(); throw ... }
\* (mutant: throws without destroying)
SubscriptionFailedNoDestroy(ts, c) == ts

SubscriptionFailed(ts, c) == destroy(ts, c, "subscribe")

\* entersState(connection, Ready) resolved: lines 511-527. ok is what
\* connection.subscribe(audioPlayer) returned.
readyWaitDone(g, i) ==
    /\ i \in TaskIds(g)
    /\ tasks[g][i].pc = "awaitReady"
    /\ conns[g][tasks[g][i].conn].status = "ready"
    /\ \E ok \in BOOLEAN :
         IF ok
         THEN /\ SetTask(g, i, [tasks[g][i] EXCEPT !.pc = "awaitPlaying",
                                    !.subscribed = TRUE, !.played = TRUE])
              /\ UNCHANGED <<conns, voiceConnections>>
         ELSE /\ SetTask(g, i, Settle(tasks[g][i], "fail", "subscribe"))
              /\ SetTransport(g, SubscriptionFailed(Transport(g), tasks[g][i].conn))
    /\ UNCHANGED <<requests, queues>>
    /\ UNCHANGED offDelivery

\* entersState(connection, Ready, 30_000) rejected (timeout or abort): the
\* exception leaves playAudioBuffer; nothing else runs.
readyWaitFails(g, i) ==
    /\ i \in TaskIds(g)
    /\ tasks[g][i].pc = "awaitReady"
    /\ conns[g][tasks[g][i].conn].status # "ready"
    /\ SetTask(g, i, Settle(tasks[g][i], "fail", "ready"))
    /\ UNCHANGED <<requests, queues, conns, voiceConnections>>
    /\ UNCHANGED offDelivery

\* entersState(audioPlayer, Playing, 5_000) resolved.
playingWaitDone(g, i) ==
    /\ i \in TaskIds(g)
    /\ tasks[g][i].pc = "awaitPlaying"
    /\ SetTask(g, i, [tasks[g][i] EXCEPT !.pc = "awaitIdle"])
    /\ UNCHANGED <<requests, queues, conns, voiceConnections>>
    /\ UNCHANGED offDelivery

\* entersState(audioPlayer, Playing, 5_000) rejected.
\* (mutant: the rejection is caught and logged like a flush failure)
playingWaitFailsSwallowed(g, i) ==
    /\ i \in TaskIds(g)
    /\ tasks[g][i].pc = "awaitPlaying"
    /\ SetTask(g, i, Finally(Settle(tasks[g][i], "ok", "playing")))
    /\ UNCHANGED <<requests, queues, conns, voiceConnections>>
    /\ UNCHANGED offDelivery

playingWaitFails(g, i) ==
    /\ i \in TaskIds(g)
    /\ tasks[g][i].pc = "awaitPlaying"
    /\ SetTask(g, i, Finally(Settle(tasks[g][i], "fail", "playing")))
    /\ UNCHANGED <<requests, queues, conns, voiceConnections>>
    /\ UNCHANGED offDelivery

\* What the catch of flushSilenceFrames leaves behind: a warning is logged,
\* the function returns normally, the finally block of playAudioBuffer runs.
\* (mutant: the error is rethrown)
FlushFailedRethrown(t) == Finally(Settle([t EXCEPT !.flush = "failed"], "fail", "flush"))

FlushFailed(t) == Finally(Settle([t EXCEPT !.flush = "failed"], "ok", "none"))

\* entersState(audioPlayer, Idle, 120_000) resolved: flushSilenceFrames
\* starts and plays the silence resource; thrown is whether building or
\* playing that resource threw.
idleWaitDone(g, i) ==
    /\ i \in TaskIds(g)
    /\ tasks[g][i].pc = "awaitIdle"
    /\ Playable(g, tasks[g][i])
    /\ \E thrown \in BOOLEAN :
         SetTask(g, i, IF thrown THEN FlushFailed(tasks[g][i])
                       ELSE [tasks[g][i] EXCEPT !.pc = "flushPlaying"])
    /\ UNCHANGED <<requests, queues, conns, voiceConnections>>
    /\ UNCHANGED offDelivery

\* entersState(audioPlayer, Idle, 120_000) rejected.
\* (mutant: the flush sits in the finally block and runs after the timeout)
idleWaitFailsThenFlushes(g, i) ==
    /\ i \in TaskIds(g)
    /\ tasks[g][i].pc = "awaitIdle"
    /\ SetTask(g, i, [tasks[g][i] EXCEPT !.pc = "flushPlaying"])
    /\ UNCHANGED <<requests, queues, conns, voiceConnections>>
    /\ UNCHANGED offDelivery

\* (mutant: the wait for Idle has no timeout, so it never rejects)
idleWaitNoTimeout(g, i) ==
    /\ i \in TaskIds(g)
    /\ tasks[g][i].pc = "awaitIdle"
    /\ FALSE
    /\ UNCHANGED vars

idleWaitFails(g, i) ==
    /\ i \in TaskIds(g)
    /\ tasks[g][i].pc = "awaitIdle"
    /\ SetTask(g, i, Finally(Settle(tasks[g][i], "fail", "idle")))
    /\ UNCHANGED <<requests, queues, conns, voiceConnections>>
    /\ UNCHANGED offDelivery

\* flushSilenceFrames: entersState(audioPlayer, Playing, 1_000) resolved.
flushPlayingDone(g, i) ==
    /\ i \in TaskIds(g)
    /\ tasks[g][i].pc = "flushPlaying"
    /\ SetTask(g, i, [tasks[g][i] EXCEPT !.pc = "flushIdle"])
    /\ UNCHANGED <<requests, queues, conns, voiceConnections>>
    /\ UNCHANGED offDelivery

\* flushSilenceFrames: entersState(audioPlayer, Idle, 2_000) resolved.
flushIdleDone(g, i) ==
    /\ i \in TaskIds(g)
    /\ tasks[g][i].pc = "flushIdle"
    /\ Playable(g, tasks[g][i])
    /\ SetTask(g, i, Finally(Settle([tasks[g][i] EXCEPT !.flush = "ok"], "ok", "none")))
    /\ UNCHANGED <<requests, queues, conns, voiceConnections>>
    /\ UNCHANGED offDelivery

\* flushSilenceFrames: either wait rejected; the catch logs a warning.
flushFails(g, i) ==
    /\ i \in TaskIds(g)
    /\ tasks[g][i].pc \in {"flushPlaying", "flushIdle"}
    /\ SetTask(g, i, FlushFailed(tasks[g][i]))
    /\ UNCHANGED <<requests, queues, conns, voiceConnections>>
    /\ UNCHANGED offDelivery

\* The callback of next.finally(...): compare-and-delete of the map entry.
\* (mutant: the entry is deleted without the comparison)
queueCleanupDeletes(g, i) ==
    /\ i \in TaskIds(g)
    /\ tasks[g][i].st = "settled"
    /\ ~tasks[g][i].cleaned
    /\ queues' = [queues EXCEPT ![g] = NoEntry]
    /\ SetTask(g, i, [tasks[g][i] EXCEPT !.cleaned = TRUE])
    /\ UNCHANGED <<requests, conns, voiceConnections>>
    /\ UNCHANGED offDelivery

queueCleanup(g, i) ==
    /\ i \in TaskIds(g)
    /\ tasks[g][i].st = "settled"
    /\ ~tasks[g][i].cleaned
    /\ queues' = [queues EXCEPT ![g] = IF @ = NextPromise(g, i) THEN NoEntry ELSE @]
    /\ SetTask(g, i, [tasks[g][i] EXCEPT !.cleaned = TRUE])
    /\ UNCHANGED <<requests, conns, voiceConnections>>
    /\ UNCHANGED offDelivery

\* The body of handleLeaveVoiceCommand(guild): the transport it leaves and
\* the string it returns.
LeaveNotConnected == "I'm not connected to a voice channel right now."
LeaveDisconnected == "Disconnected from the voice channel."

\* (mutant: reports success without calling connection.destroy())
leaveVoiceKeepsConnection(ts) ==
    [ts |-> ts,
     reply |-> IF getVoiceConnection(ts) = NoConnection THEN LeaveNotConnected
               ELSE LeaveDisconnected]

leaveVoice(ts) ==
    LET connection == getVoiceConnection(ts) IN
    IF connection = NoConnection
    THEN [ts |-> ts, reply |-> LeaveNotConnected]
    ELSE [ts |-> destroy(ts, connection, "leave"), reply |-> LeaveDisconnected]

\* handleLeaveVoiceCommand(guild); the reply goes back to the sender.
\* (mutant: leave also drops the guild's chain, cancelling what is pending)
handleLeaveVoiceCommandCancels(g) ==
    LET o == leaveVoice(Transport(g)) IN
    /\ SetTransport(g, o.ts)
    /\ tasks' = [tasks EXCEPT ![g] =
                   [i \in DOMAIN @ |->
                      IF @[i].st = "pending"
                      THEN [@[i] EXCEPT !.st = "settled", !.pc = "done",
                                        !.outcome = "skipped", !.cleaned = TRUE]
                      ELSE @[i]]]
    /\ queues' = [queues EXCEPT ![g] = NoEntry]
    /\ UNCHANGED requests
    /\ UNCHANGED offDelivery

handleLeaveVoiceCommand(g) ==
    LET o == leaveVoice(Transport(g)) IN
    /\ SetTransport(g, o.ts)
    /\ UNCHANGED <<requests, tasks, queues>>
    /\ UNCHANGED offDelivery

Next ==
    \/ \E g \in Guilds, ch \in Channels : handleVoiceSpeakCommand(g, ch)
    \/ \E g \in Guilds, r \in Slots : synthesisReturns(g, r)
    \/ \E g \in Guilds, r \in Slots : synthesisThrows(g, r)
    \/ \E g \in Guilds, i \in Slots : playAudioBuffer(g, i)
    \/ \E g \in Guilds, c \in Slots : connectionReady(g, c)
    \/ \E g \in Guilds, c \in Slots : connectionLost(g, c)
    \/ \E g \in Guilds, i \in Slots : readyWaitDone(g, i)
    \/ \E g \in Guilds, i \in Slots : readyWaitFails(g, i)
    \/ \E g \in Guilds, i \in Slots : playingWaitDone(g, i)
    \/ \E g \in Guilds, i \in Slots : playingWaitFails(g, i)
    \/ \E g \in Guilds, i \in Slots : idleWaitDone(g, i)
    \/ \E g \in Guilds, i \in Slots : idleWaitFails(g, i)
    \/ \E g \in Guilds, i \in Slots : flushPlayingDone(g, i)
    \/ \E g \in Guilds, i \in Slots : flushIdleDone(g, i)
    \/ \E g \in Guilds, i \in Slots : flushFails(g, i)
    \/ \E g \in Guilds, i \in Slots : queueCleanup(g, i)
    \/ \E g \in Guilds : handleLeaveVoiceCommand(g)

Spec == Init /\ [][Next]_vars

\* The delivery pipeline under a fair event loop: the chain's callbacks of a
\* task run once the promise they hang on has settled, and every entersState
\* wait resolves or is rejected by its timer (30s, 5s, 120s, 1s, 2s).
FairSpec ==
    /\ Spec
    /\ \A g \in Guilds : \A i \in Slots :
          WF_vars(\/ playAudioBuffer(g, i)
                  \/ readyWaitDone(g, i) \/ readyWaitFails(g, i)
                  \/ playingWaitDone(g, i) \/ playingWaitFails(g, i)
                  \/ idleWaitDone(g, i) \/ idleWaitFails(g, i)
                  \/ flushPlayingDone(g, i) \/ flushIdleDone(g, i) \/ flushFails(g, i)
                  \/ queueCleanup(g, i))

\* =================================================== the synthesis service
\* The service on its own: any VoiceService the constructor can build, one
\* synthesizeSpeech call at a time, and provider switches in between.
SynthInit ==
    /\ Offstage({"delivery", "admin", "op", "fn"})
    /\ voice \in VoiceServices
    /\ call = NoCall

\* setProvider(provider)
setProvider(p) ==
    /\ call.pc # "fetching"
    /\ voice' = [voice EXCEPT !.provider = p]
    /\ UNCHANGED <<call, offService>>

\* mapFormatToGoogleEncoding(format)
\* (mutant: opus has no case of its own and falls to the default)
mapFormatToGoogleEncodingNoOpus(format) ==
    CASE format = "mp3"  -> "MP3"
      [] OTHER           -> "LINEAR16"

mapFormatToGoogleEncoding(format) ==
    CASE format = "mp3"  -> "MP3"
      [] format = "opus" -> "OGG_OPUS"
      [] OTHER           -> "LINEAR16"

\* formatOverride ?? this.audioFormat
DesiredFormat(v, formatOverride) ==
    IF formatOverride = "none" THEN v.audioFormat ELSE formatOverride

\* A call that threw before any request went out.
Thrown(fo, message) ==
    [NoCall EXCEPT !.pc = "done", !.formatOverride = fo, !.result = NewError(message, 0, "none")]

\* A call suspended on its request to the backend.
Fetching(backend, fo, format) ==
    [NoCall EXCEPT !.pc = "fetching", !.backend = backend, !.formatOverride = fo,
                   !.format = format, !.sent = 1]

\* synthesizeSpeech(text, personality, formatOverride) up to the await on the
\* backend's answer; each generate* function checks its own credential first.
StartCall(v, fo) ==
    IF ~isEnabled(v) THEN Thrown(fo, "Voice output is disabled.")
    ELSE CASE v.provider = "openai" ->
                IF ~v.openaiClient THEN Thrown(fo, "OpenAI client is not configured.")
                ELSE Fetching("openai", fo, DesiredFormat(v, fo))
           [] v.provider = "elevenlabs" ->
                IF ~v.elevenLabsApiKey THEN Thrown(fo, "ELEVENLABS_API_KEY environment variable is required for ElevenLabs TTS.")
                ELSE Fetching("elevenlabs", fo, "none")
           [] v.provider = "google" ->
                IF ~v.googleApiKey THEN Thrown(fo, "GOOGLE_TTS_API_KEY environment variable is required for Google Cloud TTS.")
                ELSE Fetching("google", fo, DesiredFormat(v, fo))
           [] OTHER -> Thrown(fo, "TTS provider is not supported yet.")

synthesizeSpeech(fo) ==
    /\ call.pc # "fetching"
    /\ call' = StartCall(voice, fo)
    /\ UNCHANGED <<voice, offService>>

\* generateOpenAITTS after the await: the SDK throws its APIError, which has
\* the status and the message, on a non-success answer.
\* (mutant: the configured default is reported whatever was asked for)
generateOpenAITTSDefaultFormat(c, r) ==
    IF ~ResponseOk(r) THEN NewError("APIError", r.status, r.body)
    ELSE Result(r.body, voice.audioFormat)

generateOpenAITTS(c, r) ==
    IF ~ResponseOk(r) THEN NewError("APIError", r.status, r.body)
    ELSE Result(r.body, c.format)

\* The format generateElevenLabsTTS reports.
\* (mutant: it reports what the caller asked for)
ElevenLabsFormatAsRequested(c) ==
    IF c.formatOverride = "none" THEN "mp3" ELSE c.formatOverride

ElevenLabsFormat(c) == "mp3"

\* generateElevenLabsTTS after the await.
\* (mutant: response.ok is not looked at)
generateElevenLabsTTSUnchecked(c, r) == Result(r.body, ElevenLabsFormat(c))

generateElevenLabsTTS(c, r) ==
    IF ~ResponseOk(r) THEN NewError("ElevenLabs TTS failed", r.status, r.body)
    ELSE Result(r.body, ElevenLabsFormat(c))

\* generateGoogleCloudTTS after the await.
generateGoogleCloudTTS(c, r) ==
    LET encoding == mapFormatToGoogleEncoding(c.format) IN
    IF ~ResponseOk(r) THEN NewError("Google Cloud TTS failed", r.status, r.body)
    ELSE IF r.body = "empty"
         THEN NewError("Google Cloud TTS response did not include audioContent.", 0, "none")
         ELSE CASE encoding = "LINEAR16" -> Result("wav header + audio", "wav")
                [] encoding = "MP3"      -> Result(r.body, "mp3")
                [] OTHER                 -> Result(r.body, "opus")

\* What the generate* function of the call's backend makes of the answer.
Answer(c, r) ==
    CASE c.backend = "openai"     -> generateOpenAITTS(c, r)
      [] c.backend = "elevenlabs" -> generateElevenLabsTTS(c, r)
      [] OTHER                    -> generateGoogleCloudTTS(c, r)

\* The backend answers the request of the suspended call.
backendResponds(r) ==
    /\ call.pc = "fetching"
    /\ call' = [call EXCEPT
                  !.pc = "done",
                  !.response = r,
                  !.result = Answer(call, r)]
    /\ UNCHANGED <<voice, offService>>

SynthNext ==
    \/ \E p \in TTSProviders : setProvider(p)
    \/ \E fo \in AudioFormats \cup {"none"} : synthesizeSpeech(fo)
    \/ \E r \in Responses : backendResponds(r)

SynthSpec == SynthInit /\ [][SynthNext]_vars

\* ====================================================== the wav container
\* wrapLinear16AsWav on its own: every short PCM buffer over a few byte
\* values, at the sample rates the Google backend is asked for.
MaxPcmLen == 3
PcmBytes == {0, 1, 255}
SampleRates == {8000, 16000, 24000, 44100, 48000}

RECURSIVE Buffers(_)
Buffers(n) ==
    IF n = 0 THEN {<<>>}
    ELSE LET shorter == Buffers(n - 1)
         IN  shorter \cup {Append(b, x) : b \in {c \in shorter : Len(c) = n - 1}, x \in PcmBytes}

\* buf.writeUInt16LE(value) and buf.writeUInt32LE(value): the bytes written.
UInt16LE(value) == <<value % 256, (value \div 256) % 256>>
UInt32LE(value) ==
    <<value % 256, (value \div 256) % 256,
      (value \div 65536) % 256, (value \div 16777216) % 256>>

\* buf.write("RIFF"), "WAVE", "fmt ", "data": the ASCII codes.
Ascii(word) ==
    CASE word = "RIFF" -> <<82, 73, 70, 70>>
      [] word = "WAVE" -> <<87, 65, 86, 69>>
      [] word = "fmt " -> <<102, 109, 116, 32>>
      [] word = "data" -> <<100, 97, 116, 97>>

\* The value written at offset 4.
\* (mutant: the size of the whole file)
RiffChunkSizeWholeFile(pcmBuffer) == 44 + Len(pcmBuffer)

RiffChunkSize(pcmBuffer) == 36 + Len(pcmBuffer)

wrapLinear16AsWav(pcmBuffer, sampleRate) ==
    LET channels      == 1
        bitsPerSample == 16
        byteRate      == sampleRate * channels * (bitsPerSample \div 8)
        blockAlign    == channels * (bitsPerSample \div 8)
        header == Ascii("RIFF") \o UInt32LE(RiffChunkSize(pcmBuffer))
                  \o Ascii("WAVE") \o Ascii("fmt ") \o UInt32LE(16)
                  \o UInt16LE(1) \o UInt16LE(channels)
                  \o UInt32LE(sampleRate) \o UInt32LE(byteRate)
                  \o UInt16LE(blockAlign) \o UInt16LE(bitsPerSample)
                  \o Ascii("data") \o UInt32LE(Len(pcmBuffer))
    IN  header \o pcmBuffer

WavInit ==
    /\ Offstage({"delivery", "service", "admin", "op"})
    /\ \E pcm \in Buffers(MaxPcmLen), rate \in SampleRates :
         fn = [name |-> "wrapLinear16AsWav", pcmBuffer |-> pcm,
               sampleRate |-> rate, returned |-> FALSE, out |-> <<>>]

\* The call returns.
wrapReturns ==
    /\ fn.name = "wrapLinear16AsWav" /\ ~fn.returned
    /\ fn' = [fn EXCEPT !.returned = TRUE,
                         !.out = wrapLinear16AsWav(fn.pcmBuffer, fn.sampleRate)]
    /\ UNCHANGED <<delivery, service, admin, op>>

WavNext == wrapReturns

WavSpec == WavInit /\ [][WavNext]_vars

\* ====================================================== the voice locale
\* resolveGoogleLanguageCode on its own.  A string is the sequence of its
\* characters; voice names are never empty (this.voiceName || ... in the
\* caller).
MaxVoiceLen == 4
VoiceChars == {"a", "b", "-"}
EnUsNeural2F == <<"e", "n", "-", "U", "S", "-", "N", "e", "u", "r", "a", "l", "2", "-", "F">>
Solo == <<"s", "o", "l", "o">>
EnUs == <<"e", "n", "-", "U", "S">>
FrFr == <<"f", "r", "-", "F", "R">>

RECURSIVE Strings(_)
Strings(n) ==
    IF n = 0 THEN {<<>>}
    ELSE LET shorter == Strings(n - 1)
         IN  shorter \cup {Append(w, c) : w \in {v \in shorter : Len(v) = n - 1}, c \in VoiceChars}

VoiceNames == (Strings(MaxVoiceLen) \ {<<>>}) \cup {EnUsNeural2F, Solo}

\* process.env.GOOGLE_TTS_LANGUAGE: unset (or empty), or a locale.
LanguageSettings == {<<>>, FrFr}

\* voiceName.split("-")
RECURSIVE Split(_)
Split(str) ==
    IF \A k \in 1..Len(str) : str[k] # "-" THEN <<str>>
    ELSE LET k == CHOOSE j \in 1..Len(str) :
                     str[j] = "-" /\ \A h \in 1..(j - 1) : str[h] # "-"
         IN  <<SubSeq(str, 1, k - 1)>> \o Split(SubSeq(str, k + 1, Len(str)))

\* process.env.GOOGLE_TTS_LANGUAGE || "en-US"
\* (mutant: the configured language is not consulted)
DefaultLanguageFixed(configured) == EnUs

DefaultLanguage(configured) == IF configured # <<>> THEN configured ELSE EnUs

resolveGoogleLanguageCode(voiceName, configured) ==
    LET segments == Split(voiceName) IN
    IF Len(segments) >= 2 THEN segments[1] \o <<"-">> \o segments[2]
    ELSE DefaultLanguage(configured)

LocaleInit ==
    /\ Offstage({"delivery", "service", "admin", "op"})
    /\ \E name \in VoiceNames, configured \in LanguageSettings :
         fn = [name |-> "resolveGoogleLanguageCode", voiceName |-> name,
               configured |-> configured, returned |-> FALSE, out |-> <<>>]

\* The call returns.
resolveReturns ==
    /\ fn.name = "resolveGoogleLanguageCode" /\ ~fn.returned
    /\ fn' = [fn EXCEPT !.returned = TRUE,
                         !.out = resolveGoogleLanguageCode(fn.voiceName, fn.configured)]
    /\ UNCHANGED <<delivery, service, admin, op>>

LocaleNext == resolveReturns

LocaleSpec == LocaleInit /\ [][LocaleNext]_vars

\* ================================================== the runtime settings
\* runtime-settings.json, the DiscordBot constructor that loads it, and the
\* two administrative commands that rewrite it.  The environment variables
\* that name a provider or a voice are taken as unset.
MaxCommands == 2
Absent == "absent"
Null == ""
SettingsFields == {"chatModelPreset", "ttsProvider", "ttsVoice"}

\* What the file can hold when startup reads it: nothing, something that
\* cannot be read or parsed, or a JSON object with some of the fields.
Documents ==
    {[state |-> st, fields |-> DEFAULT_SETTINGS] : st \in {"missing", "unreadable", "invalid"}}
    \cup {[state |-> "valid", fields |-> f] :
            f \in [chatModelPreset : {Absent, "premium"},
                   ttsProvider : {Absent, "google", "foo"},
                   ttsVoice : {Absent, "sage", "en-US-Neural2-F"}]}

\* { ...DEFAULT_SETTINGS, ...parsed }
\* (mutant: the parsed object is returned as it is)
MergeParsedOnly(parsed) == parsed

Merge(parsed) ==
    LET field(f) == IF parsed[f] = Absent THEN DEFAULT_SETTINGS[f] ELSE parsed[f]
    IN  [chatModelPreset |-> field("chatModelPreset"),
         ttsProvider |-> field("ttsProvider"), ttsVoice |-> field("ttsVoice")]

\* loadRuntimeSettings(): existsSync, readFileSync and JSON.parse inside one
\* try whose catch returns the defaults.
loadRuntimeSettings(doc) ==
    CASE doc.state = "missing"    -> DEFAULT_SETTINGS
      [] doc.state = "unreadable" -> DEFAULT_SETTINGS
      [] doc.state = "invalid"    -> DEFAULT_SETTINGS
      [] OTHER                    -> Merge(doc.fields)

SUPPORTED_OPENAI_VOICES ==
    {"alloy", "echo", "fable", "onyx", "nova", "shimmer", "coral", "verse",
     "ballad", "ash", "sage", "marin", "cedar"}

normalizeVoicePreset(value) ==
    IF value # Null /\ value \in SUPPORTED_OPENAI_VOICES THEN value ELSE "alloy"

normalizeTtsProvider(value) ==
    IF value # Null /\ value \in TTSProviders THEN value ELSE "openai"

resolveVoicePresetForProvider(provider, preferred) ==
    IF preferred # Null
    THEN IF provider = "openai" THEN normalizeVoicePreset(preferred) ELSE preferred
    ELSE CASE provider = "openai" -> normalizeVoicePreset(Null)
           [] provider = "google" -> "en-US-Neural2-F"
           [] OTHER               -> Null

getInitialVoicePreset(provider, preferred) ==
    LET resolved == resolveVoicePresetForProvider(provider, preferred) IN
    IF resolved # Null THEN resolved
    ELSE IF preferred # Null THEN preferred
    ELSE IF provider = "openai" THEN normalizeVoicePreset(Null) ELSE "alloy"

AdminInit ==
    /\ Offstage({"delivery", "service", "op", "fn"})
    /\ document \in Documents
    /\ bot = NoBot
    /\ writes = <<>>

\* The DiscordBot constructor, lines 131-147.
construct ==
    /\ ~bot.constructed
    /\ LET settings == loadRuntimeSettings(document)
           provider == normalizeTtsProvider(settings.ttsProvider)
           preset   == getInitialVoicePreset(provider, settings.ttsVoice)
       IN  /\ bot' = [bot EXCEPT !.constructed = TRUE, !.runtimeSettings = settings,
                                  !.currentTtsProvider = provider, !.voicePreset = preset]
           /\ voice' = [voice EXCEPT !.provider = provider, !.voiceName = preset]
    /\ UNCHANGED <<document, writes, call, delivery, op, fn>>

\* The strings the administrative commands return, with the provider and
\* the voice they interpolate.
ComingSoon(provider) ==
    [text |-> "Support for ... is coming soon.", provider |-> provider, voice |-> "none"]
NeedVoice ==
    [text |-> "Please provide a voice ID when switching to this provider.",
     provider |-> "none", voice |-> "none"]
ProviderSet(provider, v) ==
    [text |-> "TTS provider set to ... using voice ...", provider |-> provider, voice |-> v]
VoiceUpdated(v) ==
    [text |-> "Updated TTS voice to ...", provider |-> "none", voice |-> v]

\* persistSettings(): saveRuntimeSettings serialises this.runtimeSettings at
\* once and awaits writeFile; the command resumes when the write settles and
\* then returns reply.
persistSettings(settings, reply) ==
    writes' = Append(writes, [settings |-> settings, reply |-> reply])

\* The voices and providers the commands are given.
EngineProviders == {"openai", "google", "elevenlabs", "azure"}
CommandVoices == {Null, "sage", "en-US-Neural2-F"}

\* The voice handleTtsEngineCommand settles on, Null when it has none.
NextVoice(b, normalizedProvider, voiceArg) ==
    LET candidateVoice == IF voiceArg = Null /\ normalizedProvider = b.currentTtsProvider
                          THEN b.voicePreset ELSE voiceArg
        nextVoice == resolveVoicePresetForProvider(normalizedProvider, candidateVoice)
    IN  IF nextVoice = Null /\ candidateVoice # Null THEN candidateVoice ELSE nextVoice

\* handleTtsEngineCommand(provider, voice) up to its await (or its return).
\* (mutant: the provider is switched before the voice is looked for)
handleTtsEngineCommandSwitchesFirst(provider, voiceArg) ==
    LET normalizedProvider == normalizeTtsProvider(provider)
        nextVoice == NextVoice(bot, normalizedProvider, voiceArg)
    IN  /\ bot.constructed /\ bot.commands < MaxCommands
        /\ IF normalizedProvider \notin {"openai", "elevenlabs", "google"}
           THEN /\ bot' = [bot EXCEPT !.commands = @ + 1,
                                       !.returned = ComingSoon(normalizedProvider)]
                /\ UNCHANGED <<voice, writes>>
           ELSE IF nextVoice = Null
           THEN /\ bot' = [bot EXCEPT !.commands = @ + 1,
                                       !.currentTtsProvider = normalizedProvider,
                                       !.returned = NeedVoice]
                /\ voice' = [voice EXCEPT !.provider = normalizedProvider]
                /\ UNCHANGED writes
           ELSE /\ bot' = [bot EXCEPT !.commands = @ + 1,
                                       !.currentTtsProvider = normalizedProvider,
                                       !.voicePreset = nextVoice,
                                       !.runtimeSettings.ttsProvider = normalizedProvider,
                                       !.runtimeSettings.ttsVoice = nextVoice]
                /\ voice' = [voice EXCEPT !.provider = normalizedProvider,
                                           !.voiceName = nextVoice]
                /\ persistSettings(bot'.runtimeSettings,
                                   ProviderSet(normalizedProvider, nextVoice))
        /\ UNCHANGED <<document, call, delivery, op, fn>>

handleTtsEngineCommand(provider, voiceArg) ==
    LET normalizedProvider == normalizeTtsProvider(provider)
        nextVoice == NextVoice(bot, normalizedProvider, voiceArg)
    IN  /\ bot.constructed /\ bot.commands < MaxCommands
        /\ IF normalizedProvider \notin {"openai", "elevenlabs", "google"} \/ nextVoice = Null
           THEN /\ bot' = [bot EXCEPT
                             !.commands = @ + 1,
                             !.returned =
                                 IF normalizedProvider \notin {"openai", "elevenlabs", "google"}
                                 THEN ComingSoon(normalizedProvider) ELSE NeedVoice]
                /\ UNCHANGED <<voice, writes>>
           ELSE /\ bot' = [bot EXCEPT !.commands = @ + 1,
                                       !.currentTtsProvider = normalizedProvider,
                                       !.voicePreset = nextVoice,
                                       !.runtimeSettings.ttsProvider = normalizedProvider,
                                       !.runtimeSettings.ttsVoice = nextVoice]
                /\ voice' = [voice EXCEPT !.provider = normalizedProvider,
                                           !.voiceName = nextVoice]
                /\ persistSettings(bot'.runtimeSettings,
                                   ProviderSet(normalizedProvider, nextVoice))
        /\ UNCHANGED <<document, call, delivery, op, fn>>

\* handleVoicePresetCommand(voice) up to its await.
\* (mutant: the service is not told, voiceService.setVoice is left out)
handleVoicePresetCommandNoSetVoice(voiceArg) ==
    LET shouldNormalize == bot.currentTtsProvider = "openai"
        preset == IF shouldNormalize THEN normalizeVoicePreset(voiceArg) ELSE voiceArg
    IN  /\ bot.constructed /\ bot.commands < MaxCommands
        /\ bot' = [bot EXCEPT !.commands = @ + 1, !.voicePreset = preset,
                               !.runtimeSettings.ttsVoice = preset]
        /\ persistSettings(bot'.runtimeSettings, VoiceUpdated(preset))
        /\ UNCHANGED <<voice, document, call, delivery, op, fn>>

handleVoicePresetCommand(voiceArg) ==
    LET shouldNormalize == bot.currentTtsProvider = "openai"
        preset == IF shouldNormalize THEN normalizeVoicePreset(voiceArg) ELSE voiceArg
    IN  /\ bot.constructed /\ bot.commands < MaxCommands
        /\ bot' = [bot EXCEPT !.commands = @ + 1, !.voicePreset = preset,
                               !.runtimeSettings.ttsVoice = preset]
        /\ voice' = [voice EXCEPT !.voiceName = preset]
        /\ persistSettings(bot'.runtimeSettings, VoiceUpdated(preset))
        /\ UNCHANGED <<document, call, delivery, op, fn>>

Without(seq, k) == SubSeq(seq, 1, k - 1) \o SubSeq(seq, k + 1, Len(seq))

\* A writeFile on the document completes.  Calls that overlap on one file
\* are not ordered by Node, so any of the writes in flight may be the next.
writeLands(k) ==
    /\ k \in 1..Len(writes)
    /\ document' = [state |-> "valid", fields |-> writes[k].settings]
    /\ writes' = Without(writes, k)
    /\ bot' = [bot EXCEPT !.returned = writes[k].reply]
    /\ UNCHANGED <<service, delivery, op, fn>>

\* A writeFile rejects; the catch of persistSettings logs it.
\* (mutant: persistSettings has no catch, the command rejects with the error)
writeFailsRethrown(k) ==
    /\ k \in 1..Len(writes)
    /\ writes' = Without(writes, k)
    /\ bot' = [bot EXCEPT !.returned = [NoReply EXCEPT !.text = "EACCES"]]
    /\ UNCHANGED <<document, service, delivery, op, fn>>

writeFails(k) ==
    /\ k \in 1..Len(writes)
    /\ writes' = Without(writes, k)
    /\ bot' = [bot EXCEPT !.returned = writes[k].reply]
    /\ UNCHANGED <<document, service, delivery, op, fn>>

AdminNext ==
    \/ construct
    \/ \E provider \in EngineProviders, v \in CommandVoices : handleTtsEngineCommand(provider, v)
    \/ \E v \in CommandVoices \ {Null} : handleVoicePresetCommand(v)
    \/ \E k \in 1..MaxCommands : writeLands(k)
    \/ \E k \in 1..MaxCommands : writeFails(k)

AdminSpec == AdminInit /\ [][AdminNext]_vars

\* ================================================= the public operations
\* What the four public voice operations of DiscordBot hand to their caller:
\* the string they return or the Error they reject with. One operation runs
\* against a VoiceService and the answers of its surroundings (the member
\* lookup, the AI service, the TTS backend, the file system, the registry).
NoOutcome == [kind |-> "none", message |-> "none", status |-> 0, detail |-> "none"]

\* return "<text>"
Returns(text) == [NoOutcome EXCEPT !.kind = "returned", !.message = text]

\* throw new Error(message), or an awaited rejection passing through: the
\* Error of a failed synthesis carries the backend's status and detail.
Throws(e) ==
    [NoOutcome EXCEPT !.kind = "thrown", !.message = e.error,
                      !.status = e.status, !.detail = e.detail]

\* await this.voiceService.synthesizeSpeech(text, personality, formatOverride)
\* with the backend answering r.
Synthesis(v, fo, r) ==
    LET c == StartCall(v, fo) IN
    IF c.pc = "done" THEN c.result ELSE Answer(c, r)

\* The surroundings of one operation. Fields an operation never reads are
\* held at one value.
Operations ==
    [name : {"speak"}, clientReady : BOOLEAN, member : BOOLEAN, inChannel : BOOLEAN,
     reply : {TRUE}, response : Responses, files : {TRUE}, connected : {FALSE},
     outcome : {NoOutcome}]
    \cup
    [name : {"ai"}, clientReady : BOOLEAN, member : BOOLEAN, inChannel : BOOLEAN,
     reply : BOOLEAN, response : Responses, files : {TRUE}, connected : {FALSE},
     outcome : {NoOutcome}]
    \cup
    [name : {"debug"}, clientReady : {TRUE}, member : {TRUE}, inChannel : {TRUE},
     reply : BOOLEAN, response : Responses, files : BOOLEAN, connected : {FALSE},
     outcome : {NoOutcome}]
    \cup
    [name : {"leave"}, clientReady : {TRUE}, member : {TRUE}, inChannel : {TRUE},
     reply : {TRUE}, response : {[status |-> 200, body |-> "audio"]}, files : {TRUE},
     connected : BOOLEAN, outcome : {NoOutcome}]

\* handleVoiceSpeakCommand(user, guild, text, language), as seen by its caller.
VoiceSpeakCommand(v, o) ==
    IF ~o.clientReady THEN Throws(NewError("Discord client is not ready", 0, "none"))
    ELSE IF ~isEnabled(v)
    THEN Returns("Voice output is disabled. Please configure VOICE_ENABLED and a valid TTS provider.")
    ELSE IF ~o.member
    THEN Returns("I couldn't find your guild membership. Please try again.")
    ELSE IF ~o.inChannel
    THEN Returns("You need to join a voice channel first.")
    ELSE IF Synthesis(v, "wav", o.response).kind = "error"
    THEN Returns("Voice output is not configured. Please set VOICE_ENABLED and provide a TTS API key.")
    ELSE Returns("I'll speak your message in c1 as soon as any previous requests finish.")

\* handleAiVoiceInteraction(user, guild, promptText), as seen by its caller.
AiVoiceInteraction(v, o) ==
    IF ~o.clientReady THEN Throws(NewError("Discord client is not ready", 0, "none"))
    ELSE IF ~isEnabled(v)
    THEN Returns("Voice output is disabled. Please configure VOICE_ENABLED and a valid TTS provider.")
    ELSE IF ~o.member
    THEN Returns("I couldn't find your guild membership. Please try again.")
    ELSE IF ~o.inChannel
    THEN Returns("You need to join a voice channel first.")
    ELSE IF ~o.reply
    THEN Returns("I couldn't generate an AI response right now. Please try again.")
    ELSE IF Synthesis(v, "wav", o.response).kind = "error"
    THEN Returns("Voice output is not available right now.")
    ELSE Returns("Queued AI response in c1: reply")

\* handleVoiceDebugCommand(user, promptText), as seen by its caller: none of
\* its awaits is inside a try.
VoiceDebugCommand(v, o) ==
    LET speech == Synthesis(v, "none", o.response) IN
    IF ~isEnabled(v)
    THEN Returns("Voice output is disabled. Set VOICE_ENABLED=true and configure OPENAI_TTS_API_KEY to use this command.")
    ELSE IF ~o.reply THEN Throws(NewError("AI service error", 0, "none"))
    ELSE IF speech.kind = "error" THEN Throws(speech)
    ELSE IF ~o.files THEN Throws(NewError("EACCES", 0, "none"))
    ELSE Returns("Saved debug audio and metadata.")

\* handleLeaveVoiceCommand(guild), as seen by its caller.
LeaveVoiceCommand(o) ==
    LET ts == IF o.connected
              THEN joinVoiceChannel([conns |-> <<>>, reg |-> NoConnection], "c1")
              ELSE [conns |-> <<>>, reg |-> NoConnection]
    IN  Returns(leaveVoice(ts).reply)

OpsInit ==
    /\ Offstage({"delivery", "admin", "fn"})
    /\ voice \in VoiceServices
    /\ call = NoCall
    /\ op \in Operations

\* One operation runs to its end.
speakSettles ==
    /\ op.name = "speak"
    /\ op.outcome = NoOutcome
    /\ op' = [op EXCEPT !.outcome = VoiceSpeakCommand(voice, op)]
    /\ UNCHANGED <<delivery, service, admin, fn>>

aiVoiceSettles ==
    /\ op.name = "ai"
    /\ op.outcome = NoOutcome
    /\ op' = [op EXCEPT !.outcome = AiVoiceInteraction(voice, op)]
    /\ UNCHANGED <<delivery, service, admin, fn>>

voiceDebugSettles ==
    /\ op.name = "debug"
    /\ op.outcome = NoOutcome
    /\ op' = [op EXCEPT !.outcome = VoiceDebugCommand(voice, op)]
    /\ UNCHANGED <<delivery, service, admin, fn>>

leaveSettles ==
    /\ op.name = "leave"
    /\ op.outcome = NoOutcome
    /\ op' = [op EXCEPT !.outcome = LeaveVoiceCommand(op)]
    /\ UNCHANGED <<delivery, service, admin, fn>>

OpsNext ==
    \/ speakSettles
    \/ aiVoiceSettles
    \/ voiceDebugSettles
    \/ leaveSettles

OpsSpec == OpsInit /\ [][OpsNext]_vars

\* ================================================= the voice preferences
\* userVoicePreferences and the speech-mode follow-up: the voice commands of
\* two users that got past their checks, and the messages they send next.
Languages == {"Spanish"}

\* updateVoicePreference(userId, preference): what is stored for the user.
\* (mutant: the stored mode wins over the one the command gives)
updateVoicePreferenceKeepsMode(current, preference) ==
    [set |-> TRUE,
     language |-> IF preference.language # Undefined THEN preference.language
                  ELSE current.language,
     mode |-> IF current.mode # Undefined THEN current.mode
              ELSE IF preference.mode # Undefined THEN preference.mode
              ELSE "speech",
     lastVoiceChannelId |-> IF preference.lastVoiceChannelId # Undefined
                            THEN preference.lastVoiceChannelId
                            ELSE current.lastVoiceChannelId,
     lastGuildId |-> IF preference.lastGuildId # Undefined THEN preference.lastGuildId
                     ELSE current.lastGuildId]

updateVoicePreference(current, preference) ==
    [set |-> TRUE,
     language |-> IF preference.language # Undefined THEN preference.language
                  ELSE current.language,
     mode |-> IF preference.mode # Undefined THEN preference.mode
              ELSE IF current.mode # Undefined THEN current.mode
              ELSE "speech",
     lastVoiceChannelId |-> IF preference.lastVoiceChannelId # Undefined
                            THEN preference.lastVoiceChannelId
                            ELSE current.lastVoiceChannelId,
     lastGuildId |-> IF preference.lastGuildId # Undefined THEN preference.lastGuildId
                     ELSE current.lastGuildId]

\* No follow-up is waiting for its speech.
NoFollowup == [user |-> Undefined, guild |-> Undefined, channel |-> Undefined]

\* last: per user, the latest voice command that got past its checks.
\* pending: the follow-up suspended in `await synthesizeSpeech`.
\* outcome: how the latest follow-up that got that far ended.
PrefInit ==
    /\ Offstage({"delivery", "fn"})
    /\ voice \in {BotVoiceService, [BotVoiceService EXCEPT !.enabled = FALSE]}
    /\ call = NoCall
    /\ document = NoDocument
    /\ writes = <<>>
    /\ bot = [NoBot EXCEPT !.constructed = TRUE]
    /\ op = [name |-> "followup", last |-> [u \in Users |-> "none"], pending |-> NoFollowup,
             outcome |-> "none"]

\* handleVoiceSpeakCommand(user, guild, text, language), lines 294-319, for a
\* member found in voice channel ch: the preference is stored before the
\* speech is synthesized.
speakRemembered(u, g, ch, language) ==
    LET previousPreference == bot.userVoicePreferences[u]
        effectiveLanguage == IF language # Undefined THEN language
                             ELSE previousPreference.language
    IN  /\ isEnabled(voice)
        /\ bot' = [bot EXCEPT !.userVoicePreferences[u] =
                      updateVoicePreference(@, [mode |-> "speech",
                                                language |-> effectiveLanguage,
                                                lastVoiceChannelId |-> ch,
                                                lastGuildId |-> g])]
        /\ op' = [op EXCEPT !.last[u] = "speak"]
        /\ UNCHANGED <<document, writes, service, delivery, fn>>

\* handleAiVoiceInteraction(user, guild, promptText), lines 342-368.
aiVoiceRemembered(u, g, ch) ==
    LET previousPreference == bot.userVoicePreferences[u]
        effectiveLanguage == previousPreference.language
    IN  /\ isEnabled(voice)
        /\ bot' = [bot EXCEPT !.userVoicePreferences[u] =
                      updateVoicePreference(@, [mode |-> "ai",
                                                language |-> effectiveLanguage,
                                                lastVoiceChannelId |-> ch,
                                                lastGuildId |-> g])]
        /\ op' = [op EXCEPT !.last[u] = "ai"]
        /\ UNCHANGED <<document, writes, service, delivery, fn>>

\* maybeSpeakUserMessage(userId, text, guild) up to `await synthesizeSpeech`:
\* guild is the guild of the message (Undefined for a direct message),
\* fetched whether the last guild could be fetched, ch the voice channel the
\* member is found in (Undefined for none).
followupStarts(u, guild, fetched, ch) ==
    LET preference == bot.userVoicePreferences[u]
        targetGuild == IF guild # Undefined THEN guild
                       ELSE IF preference.lastGuildId # Undefined /\ fetched
                       THEN preference.lastGuildId
                       ELSE Undefined
    IN  /\ op.pending = NoFollowup
        /\ isEnabled(voice)
        /\ preference.set /\ preference.mode = "speech"
        /\ targetGuild # Undefined
        /\ ch # Undefined
        /\ op' = [op EXCEPT !.pending = [user |-> u, guild |-> targetGuild, channel |-> ch]]
        /\ UNCHANGED <<admin, service, delivery, fn>>

\* The follow-up's synthesizeSpeech returned: enqueueVoicePlayback.
followupSpoken ==
    /\ op.pending # NoFollowup
    /\ SumLen(tasks, Guilds) < MaxRequests
    /\ enqueue(op.pending.guild, 0, op.pending.channel)
    /\ op' = [op EXCEPT !.pending = NoFollowup, !.outcome = "enqueued"]
    /\ UNCHANGED <<requests, conns, voiceConnections, admin, service, fn>>

\* The follow-up's synthesizeSpeech threw: a warning is logged.
followupFails ==
    /\ op.pending # NoFollowup
    /\ op' = [op EXCEPT !.pending = NoFollowup, !.outcome = "warned"]
    /\ UNCHANGED <<admin, service, delivery, fn>>

PrefNext ==
    \/ \E u \in Users, g \in Guilds, ch \in Channels, language \in Languages \cup {Undefined} :
          speakRemembered(u, g, ch, language)
    \/ \E u \in Users, g \in Guilds, ch \in Channels : aiVoiceRemembered(u, g, ch)
    \/ \E u \in Users, guild \in Guilds \cup {Undefined}, fetched \in BOOLEAN,
          ch \in Channels \cup {Undefined} : followupStarts(u, guild, fetched, ch)
    \/ followupSpoken
    \/ followupFails

PrefSpec == PrefInit /\ [][PrefNext]_vars

\* ================================================================= claims
Running(g) == {i \in TaskIds(g) : tasks[g][i].st = "running"}

\* C1: for every guild, at most one of its enqueued tasks is executing at
\* any time.
C1_OneTaskPerKey == \A g \in Guilds : Cardinality(Running(g)) <= 1

\* A task of a guild is executing while another task of that guild waits.
C1_Witness ==
    \E g \in Guilds : \E i, j \in TaskIds(g) :
        tasks[g][i].st = "running" /\ tasks[g][j].st = "pending"

\* C2: whenever a task of a guild starts, every task enqueued earlier for
\* that guild has finished (so starts follow enqueue order, each after the
\* previous one finished, by success or by failure).
C2_FifoStart ==
    [][\A g \in Guilds : \A i \in TaskIds(g) :
          (tasks[g][i].st = "pending" /\ tasks'[g][i].st = "running")
          => \A j \in 1..(i - 1) : tasks[g][j].st = "settled"]_vars

\* The second task of a guild is executing after the first one failed.
C2_Witness ==
    \E g \in Guilds :
        /\ Len(tasks[g]) >= 2
        /\ tasks[g][1].outcome = "fail"
        /\ tasks[g][2].st = "running"

\* C3: every task that left the pending state has been executed exactly
\* once and a pending one not at all; no task is settled without having run,
\* whatever the outcome of the tasks before it.
C3_ExactlyOnce ==
    \A g \in Guilds : \A i \in TaskIds(g) :
        tasks[g][i].runs = IF tasks[g][i].st = "pending" THEN 0 ELSE 1

\* A task finished after the task before it, for the same guild, failed.
C3_Witness ==
    \E g \in Guilds :
        /\ Len(tasks[g]) >= 2
        /\ tasks[g][1].outcome = "fail"
        /\ tasks[g][2].st = "settled"
        /\ tasks[g][2].runs = 1

\* C4: a waiting task may start as soon as the earlier tasks of its own
\* guild are done, whatever the tasks of the other guilds are doing.
C4_KeysIndependent ==
    \A g \in Guilds : \A i \in TaskIds(g) :
        (/\ tasks[g][i].st = "pending"
         /\ \A j \in 1..(i - 1) : tasks[g][j].cleaned)
        => PromiseSettled(tasks[g][i].previous)

\* A task of one guild is executing (and may never finish) while a task of
\* another guild waits to start: the invariant makes that task startable.
C4_Witness ==
    \E g, h \in Guilds :
        /\ g # h
        /\ Len(tasks[g]) >= 1 /\ Len(tasks[h]) >= 1
        /\ tasks[g][1].st = "running"
        /\ tasks[h][1].st = "pending"

\* C5 (as claimed): of two queued play requests for one guild, the one
\* submitted second never has its playback started while the playback task
\* of the one submitted first has not even started.
C5_SubmissionOrder ==
    \A g \in Guilds : \A r1, r2 \in RequestIds(g) :
        (/\ r1 < r2
         /\ requests[g][r1].result = "queued"
         /\ requests[g][r2].result = "queued"
         /\ tasks[g][requests[g][r2].task].played)
        => tasks[g][requests[g][r1].task].st # "pending"

\* C6 (as claimed): the handle of a finished task is resolved when the task
\* succeeded and rejected when it failed.
C6_HandleHasTaskOutcome ==
    \A g \in Guilds : \A i \in TaskIds(g) :
        tasks[g][i].st = "settled"
        => tasks[g][i].handle = IF tasks[g][i].outcome = "ok" THEN "resolved"
                                ELSE "rejected"

\* C6 (amended): the handle is pending until its own task finishes and is
\* resolved from then on, whether the task succeeded or failed and whatever
\* the later tasks of the chain do; it is never rejected.
C6_HandleResolvesOnFinish ==
    \A g \in Guilds : \A i \in TaskIds(g) :
        tasks[g][i].handle = IF tasks[g][i].st = "settled" THEN "resolved"
                             ELSE "pending"

\* A failed task's handle has settled while a later task of the chain has
\* not finished.
C6_Witness ==
    \E g \in Guilds :
        /\ Len(tasks[g]) >= 2
        /\ tasks[g][1].outcome = "fail"
        /\ tasks[g][1].handle = "resolved"
        /\ tasks[g][2].st # "settled"

\* C7 (as claimed): once every task enqueued for a guild has finished and
\* its cleanup has run, the map has no entry for the guild.
C7_DrainedMeansNoEntry ==
    \A g \in Guilds :
        (\A i \in TaskIds(g) : tasks[g][i].cleaned) => queues[g] = NoEntry

\* C8: every join was issued when no connection of the guild was live: a
\* connection bound to another channel is destroyed before the join.
C8_TeardownBeforeJoin ==
    \A g \in Guilds : \A c \in ConnIds(g) : conns[g][c].over = "none"

\* A task found the guild bound to another channel, destroyed that
\* connection and joined its own channel.
C8_Witness ==
    \E g \in Guilds : \E c \in ConnIds(g) :
        /\ conns[g][c].destroyedBy = "switch"
        /\ Len(conns[g]) > c
        /\ conns[g][c + 1].channel # conns[g][c].channel

\* C9 (as claimed): after a task failed in the wait for Ready, and before a
\* later task of the guild starts, no connection is registered for the guild.
C9_FailedConnectUnregisters ==
    \A g \in Guilds : \A i \in TaskIds(g) :
        (/\ tasks[g][i].failedAt = "ready"
         /\ \A j \in TaskIds(g) : j > i => tasks[g][j].st = "pending")
        => voiceConnections[g] = NoConnection

\* C10: a task whose subscription failed has failed, its connection is
\* destroyed and unregistered, and its resource was never played.
C10_SubscribeFailure ==
    \A g \in Guilds : \A i \in TaskIds(g) :
        tasks[g][i].failedAt = "subscribe"
        => /\ tasks[g][i].outcome = "fail"
           /\ conns[g][tasks[g][i].conn].status = "destroyed"
           /\ voiceConnections[g] # tasks[g][i].conn
           /\ ~tasks[g][i].played

\* A subscription failed on a connection that had reached Ready.
C10_Witness ==
    \E g \in Guilds : \E i \in TaskIds(g) :
        /\ tasks[g][i].failedAt = "subscribe"
        /\ conns[g][tasks[g][i].conn].destroyedBy = "subscribe"

\* C11: a task whose wait for the player to start (5s) or to finish (120s)
\* was not met has failed.
C11_PlayingTimeoutFails ==
    \A g \in Guilds : \A i \in TaskIds(g) :
        tasks[g][i].failedAt \in {"playing", "idle"}
        => /\ tasks[g][i].st = "settled"
           /\ tasks[g][i].outcome = "fail"
           /\ tasks[g][i].flush = "none"

\* One task met no start confirmation, another started and met no finish
\* confirmation.
C11_Witness ==
    /\ \E g \in Guilds : \E i \in TaskIds(g) : tasks[g][i].failedAt = "playing"
    /\ \E g \in Guilds : \E i \in TaskIds(g) : tasks[g][i].failedAt = "idle"

\* C12: a task whose silence flush failed has completed successfully.
C12_FlushFailureSwallowed ==
    \A g \in Guilds : \A i \in TaskIds(g) :
        tasks[g][i].flush = "failed"
        => /\ tasks[g][i].st = "settled"
           /\ tasks[g][i].outcome = "ok"
           /\ tasks[g][i].failedAt = "none"

\* The primary content played and the flush after it failed.
C12_Witness ==
    \E g \in Guilds : \E i \in TaskIds(g) :
        tasks[g][i].flush = "failed" /\ tasks[g][i].played

\* C13: only a running task has its player subscribed, and a finished task
\* that had subscribed a player has stopped it; so no player of an earlier
\* task is subscribed when the next task of the guild starts.
C13_PlayerReleased ==
    \A g \in Guilds : \A i \in TaskIds(g) :
        /\ tasks[g][i].subscribed => tasks[g][i].st = "running"
        /\ (tasks[g][i].st = "settled" /\ tasks[g][i].played) => tasks[g][i].stopped

\* The next task of a guild runs after a task that had subscribed its
\* player and left Playing by a timeout.
C13_Witness ==
    \E g \in Guilds :
        /\ Len(tasks[g]) >= 2
        /\ tasks[g][1].failedAt \in {"playing", "idle"}
        /\ tasks[g][1].stopped
        /\ tasks[g][2].st = "running"

\* C14 (as stated; refuted): when a task leaves Playing or Draining, its
\* connection is destroyed if it had suffered an unrecoverable error, and
\* otherwise stays registered and usable for the next task.  The finally
\* block of playAudioBuffer touches the subscription and the player only, so
\* a lost connection stays registered.
PlayingOrDraining == {"awaitPlaying", "awaitIdle", "flushPlaying", "flushIdle"}

C14_ConnectionAfterExit ==
    [][\A g \in Guilds, i \in Slots :
          (/\ i \in TaskIds(g)
           /\ tasks[g][i].st = "running"
           /\ tasks[g][i].pc \in PlayingOrDraining
           /\ tasks'[g][i].st = "settled")
          => LET c == tasks[g][i].conn IN
             /\ conns[g][c].status = "disconnected"
                  => /\ conns'[g][c].status = "destroyed"
                     /\ voiceConnections'[g] # c
             /\ conns[g][c].status = "ready"
                  => /\ conns'[g][c].status = "ready"
                     /\ voiceConnections'[g] = c]_vars

\* C15: handleLeaveVoiceCommand, for a guild with a registered connection,
\* destroys that connection (and nothing else) and answers that it
\* disconnected; for a guild with none it changes nothing and answers with
\* the not-connected message.  The first two conjuncts evaluate the handler
\* in every reachable state, the last one looks at the steps it takes.
LeftNow(g, c) ==
    /\ c \in ConnIds(g)
    /\ conns[g][c].status # "destroyed"
    /\ conns'[g][c].destroyedBy = "leave"

C15_ExplicitLeave ==
    [][\A g \in Guilds :
          LET ts == Transport(g)
              o  == leaveVoice(ts)
          IN  /\ ts.reg = NoConnection
                   => o.ts = ts /\ o.reply = LeaveNotConnected
              /\ ts.reg # NoConnection
                   => /\ o.reply = LeaveDisconnected
                      /\ o.ts.reg = NoConnection
                      /\ o.ts.conns[ts.reg].status = "destroyed"
                      /\ \A c \in ConnIds(g) \ {ts.reg} : o.ts.conns[c] = ts.conns[c]
              /\ \A c \in Slots :
                   LeftNow(g, c)
                   => /\ voiceConnections[g] = c
                      /\ voiceConnections'[g] = NoConnection
                      /\ conns'[g][c].status = "destroyed"
                      /\ UNCHANGED <<requests, tasks, queues>>
                      /\ \A h \in Guilds \ {g} :
                           conns'[h] = conns[h] /\ voiceConnections'[h] = voiceConnections[h]]_vars

\* One guild was left while connected, and another has nothing to leave.
C15_Witness ==
    \E g, h \in Guilds :
        /\ \E c \in ConnIds(g) : conns[g][c].destroyedBy = "leave"
        /\ voiceConnections[g] = NoConnection
        /\ g # h /\ voiceConnections[h] = NoConnection /\ conns[h] # <<>>

\* A running task whose connection was destroyed under it by a leave command.
LeftInFlight(g, i) ==
    /\ i \in TaskIds(g)
    /\ tasks[g][i].st = "running"
    /\ conns[g][tasks[g][i].conn].destroyedBy = "leave"

\* The queue lets task i of guild g start once everything before it is done.
Startable(g, i) ==
    (/\ tasks[g][i].st = "pending"
     /\ \A k \in 1..(i - 1) : tasks[g][k].st = "settled" /\ tasks[g][k].cleaned)
    => PromiseSettled(tasks[g][i].previous)

\* C16 (as stated; refuted): a leave command never touches the queue or the
\* tasks, a task whose connection it destroyed in flight always finishes as
\* failed, and the guild's next task can still start.  A task that is already
\* in flushSilenceFrames finishes as succeeded.
C16_LeaveFailsTask ==
    /\ [](\A g \in Guilds : \A i \in TaskIds(g) : Startable(g, i))
    /\ [][\A g \in Guilds, i \in Slots :
            /\ LeftNow(g, i) => UNCHANGED <<requests, tasks, queues>>
            /\ (LeftInFlight(g, i) /\ tasks'[g][i].st = "settled")
                 => tasks'[g][i].outcome = "fail"]_vars

\* C16 (amended): a leave command never touches the queue or the tasks; a
\* task whose connection it destroyed in flight cannot complete the wait for
\* Ready or for the end of a resource, so it finishes as failed when it is
\* left before flushSilenceFrames and as succeeded, with the flush failure
\* swallowed, when it is left inside it; the guild's next task can still
\* start.
C16_LeaveEndsTask ==
    /\ [](\A g \in Guilds : \A i \in TaskIds(g) : Startable(g, i))
    /\ [][\A g \in Guilds, i \in Slots :
            /\ LeftNow(g, i) => UNCHANGED <<requests, tasks, queues>>
            /\ (LeftInFlight(g, i) /\ tasks'[g][i].st = "settled")
                 => IF tasks[g][i].pc \in {"flushPlaying", "flushIdle"}
                    THEN /\ tasks'[g][i].outcome = "ok"
                         /\ tasks'[g][i].flush = "failed"
                    ELSE /\ tasks'[g][i].outcome = "fail"
                         /\ tasks'[g][i].failedAt \in {"ready", "playing", "idle"}
            /\ (LeftInFlight(g, i) /\ tasks[g][i].pc \in {"awaitReady", "awaitIdle", "flushIdle"}
                   /\ tasks'[g][i] # tasks[g][i])
                 => tasks'[g][i].st = "settled"]_vars

\* A task is in flight on a connection that a leave command destroyed, with
\* the guild's next task waiting behind it.
C16_Witness ==
    \E g \in Guilds :
        /\ Len(tasks[g]) >= 2
        /\ LeftInFlight(g, 1)
        /\ tasks[g][1].pc \in {"awaitIdle", "flushIdle"}
        /\ tasks[g][2].st = "pending"

\* C17: a task that starts while the guild's registered connection is bound
\* to the channel it asks for takes that connection as it is: no connection
\* is destroyed, none is created, and the registry is left alone.
Starts(g, i) ==
    /\ i \in TaskIds(g)
    /\ tasks[g][i].st = "pending"
    /\ tasks'[g][i].st = "running"

C17_SameChannelReuse ==
    [][\A g \in Guilds, i \in Slots :
          LET c == voiceConnections[g] IN
          (/\ Starts(g, i)
           /\ c # NoConnection
           /\ conns[g][c].channel = tasks[g][i].channel)
          => /\ tasks'[g][i].conn = c
             /\ UNCHANGED <<conns, voiceConnections>>]_vars

\* Two tasks of a guild, the second running on the connection the first one
\* created.
C17_Witness ==
    \E g \in Guilds :
        /\ Len(tasks[g]) >= 2
        /\ tasks[g][2].st = "running"
        /\ tasks[g][2].conn = tasks[g][1].conn
        /\ tasks[g][1].channel = tasks[g][2].channel
        /\ Len(conns[g]) = 1

\* ------------------------------------------------- the synthesis service
\* The credential the selected backend needs is missing; the backends that
\* are not implemented have none to give.
CredentialAbsent(v) ==
    \/ v.provider = "openai" /\ ~v.openaiClient
    \/ v.provider = "elevenlabs" /\ ~v.elevenLabsApiKey
    \/ v.provider = "google" /\ ~v.googleApiKey
    \/ v.provider \in {"playht", "coqui", "azure"}

\* A step that is a call of synthesizeSpeech.
CallStarts == call.pc # "fetching" /\ call' # call

\* C18: a synthesizeSpeech call made while the service is disabled, or while
\* the backend selected at that moment has no credential (the backends not
\* implemented included), throws "Voice output is disabled." and sends no
\* request.
C18_ConfigurationError ==
    [][(CallStarts /\ (~voice.enabled \/ CredentialAbsent(voice)))
        => /\ call'.pc = "done"
           /\ call'.sent = 0
           /\ call'.result.kind = "error"
           /\ call'.result.error = "Voice output is disabled."
           /\ call'.result.buffer = "none"]_vars

\* A call was refused on an enabled service whose selected backend has no
\* credential.
C18_Witness ==
    /\ call.pc = "done"
    /\ call.sent = 0
    /\ call.result.error = "Voice output is disabled."
    /\ voice.enabled
    /\ voice.provider \in {"elevenlabs", "azure"}
    /\ ~voice.elevenLabsApiKey

\* The call got an answer and ended with an error and nothing else.
FailedWith(status, detail) ==
    /\ call.result.kind = "error"
    /\ call.result.status = status
    /\ call.result.detail = detail
    /\ call.result.buffer = "none"
    /\ call.result.format = "none"

Answered == call.pc = "done" /\ call.response # NoResponse

\* C19 (as stated; refuted): whenever the backend answered with a
\* non-success status, or with a success status and no audio, the call ended
\* with an error carrying that status and the response's text, and with no
\* result.  The missing-audioContent error of generateGoogleCloudTTS carries
\* neither, and the other two backends hand an empty success body on as the
\* result.
C19_BackendError ==
    (Answered /\ (~ResponseOk(call.response) \/ call.response.body = "empty"))
    => FailedWith(call.response.status, call.response.body)

\* C19 (amended): a non-success answer ends the call with an error carrying
\* the status and the response's text; a success answer without audioContent
\* from the Google backend ends it with an error that says so and carries
\* neither; in both cases there is no result.  The OpenAI and ElevenLabs
\* backends do not look into a success body: it becomes the result's buffer.
C19_BackendErrorByCase ==
    /\ (Answered /\ ~ResponseOk(call.response))
        => FailedWith(call.response.status, call.response.body)
    /\ (Answered /\ ResponseOk(call.response) /\ call.response.body = "empty"
           /\ call.backend = "google")
        => /\ FailedWith(0, "none")
           /\ call.result.error = "Google Cloud TTS response did not include audioContent."
    /\ (Answered /\ ResponseOk(call.response) /\ call.backend \in {"openai", "elevenlabs"})
        => call.result.kind = "ok" /\ call.result.buffer = call.response.body

\* The Google backend answered 200 without audioContent and the call failed.
C19_Witness ==
    /\ Answered
    /\ call.backend = "google"
    /\ call.response = [status |-> 200, body |-> "empty"]
    /\ call.result.kind = "error"

\* C20: every successful result of the ElevenLabs backend reports mp3,
\* whatever format the caller asked for and whatever the default format is.
C20_FixedOutputFormat ==
    (call.pc = "done" /\ call.backend = "elevenlabs" /\ call.result.kind = "ok")
    => call.result.format = "mp3"

\* A caller asked the ElevenLabs backend for wav, on a service whose default
\* is opus, and was given audio.
C20_Witness ==
    /\ call.pc = "done"
    /\ call.backend = "elevenlabs"
    /\ call.formatOverride = "wav"
    /\ voice.audioFormat = "opus"
    /\ call.result.kind = "ok"
    /\ call.result.buffer = "audio"

\* The format the caller of the current call wants: its hint, or the
\* service's default when it gave none.
Wanted ==
    IF call.formatOverride \in AudioFormats THEN call.formatOverride
    ELSE voice.audioFormat

\* C21: a call served by the OpenAI backend puts the wanted format in its
\* request, and a successful result reports that same format.
C21_DirectFormat ==
    call.backend = "openai"
    => /\ call.sent = 1
       /\ call.format = Wanted
       /\ call.result.kind = "ok" => call.result.format = Wanted

\* The OpenAI backend was asked for opus on a service whose default is wav
\* and gave audio.
C21_Witness ==
    /\ call.pc = "done"
    /\ call.backend = "openai"
    /\ call.formatOverride = "opus"
    /\ voice.audioFormat = "wav"
    /\ call.result.kind = "ok"
    /\ call.result.format = "opus"

\* ------------------------------------------------------ the wav container
\* Reading a little-endian field back out of a buffer (offset from 0).
ReadUInt16LE(buf, offset) == buf[offset + 1] + 256 * buf[offset + 2]
ReadUInt32LE(buf, offset) ==
    buf[offset + 1] + 256 * buf[offset + 2] + 65536 * buf[offset + 3]
    + 16777216 * buf[offset + 4]

\* C22: wrapping L bytes at rate R gives L+44 bytes: a header with RIFF size
\* 36+L, format tag 1, one channel, rate R, byte rate 2R, block align 2, 16
\* bits, data size L, and then the L bytes as they were.
C22_WavHeader ==
    (fn.name = "wrapLinear16AsWav" /\ fn.returned)
    => LET L == Len(fn.pcmBuffer)
           R == fn.sampleRate
       IN  /\ Len(fn.out) = L + 44
           /\ SubSeq(fn.out, 1, 4) = Ascii("RIFF")
           /\ ReadUInt32LE(fn.out, 4) = 36 + L
           /\ SubSeq(fn.out, 9, 16) = Ascii("WAVE") \o Ascii("fmt ")
           /\ ReadUInt32LE(fn.out, 16) = 16
           /\ ReadUInt16LE(fn.out, 20) = 1
           /\ ReadUInt16LE(fn.out, 22) = 1
           /\ ReadUInt32LE(fn.out, 24) = R
           /\ ReadUInt32LE(fn.out, 28) = R * 2
           /\ ReadUInt16LE(fn.out, 32) = 2
           /\ ReadUInt16LE(fn.out, 34) = 16
           /\ SubSeq(fn.out, 37, 40) = Ascii("data")
           /\ ReadUInt32LE(fn.out, 40) = L
           /\ SubSeq(fn.out, 45, 44 + L) = fn.pcmBuffer

\* Three bytes were wrapped at 44100 Hz.
C22_Witness ==
    /\ fn.name = "wrapLinear16AsWav" /\ fn.returned
    /\ fn.pcmBuffer = <<255, 0, 1>>
    /\ fn.sampleRate = 44100
    /\ Len(fn.out) = 47

\* ------------------------------------------------------ the voice locale
\* Where the hyphens of a string are.
Hyphens(str) == {k \in 1..Len(str) : str[k] = "-"}

\* C23: a voice name with two hyphens or more resolves to what precedes its
\* second hyphen, one with a single hyphen (two segments) to itself, and one
\* without a hyphen to the configured language, or en-US when none is
\* configured; en-US-Neural2-F gives en-US and solo gives the default.
C23_VoiceLocale ==
    (fn.name = "resolveGoogleLanguageCode" /\ fn.returned)
    => LET H == Hyphens(fn.voiceName)
           fallback == IF fn.configured = <<>> THEN EnUs ELSE fn.configured
       IN  /\ Cardinality(H) = 0 => fn.out = fallback
           /\ Cardinality(H) = 1 => fn.out = fn.voiceName
           /\ Cardinality(H) >= 2
                => \E k \in H : /\ Cardinality({j \in H : j < k}) = 1
                                /\ fn.out = SubSeq(fn.voiceName, 1, k - 1)
           /\ fn.voiceName = EnUsNeural2F => fn.out = EnUs
           /\ fn.voiceName = Solo => fn.out = fallback

\* en-US-Neural2-F was resolved with another language configured.
C23_Witness ==
    /\ fn.name = "resolveGoogleLanguageCode" /\ fn.returned
    /\ fn.voiceName = EnUsNeural2F
    /\ fn.configured = FrFr
    /\ fn.out = EnUs

\* ---------------------------------------------------- the runtime settings
\* C24: the constructor always gets settings from loadRuntimeSettings: the
\* defaults (balanced, openai, alloy) when the file is missing, unreadable or
\* not JSON, and otherwise the file's fields with the defaults standing in
\* for the absent ones.
C24_LoadNeverAborts ==
    [][(~bot.constructed /\ bot'.constructed)
        => LET loaded == bot'.runtimeSettings IN
           /\ document.state # "valid"
                => loaded = [chatModelPreset |-> "balanced", ttsProvider |-> "openai",
                             ttsVoice |-> "alloy"]
           /\ document.state = "valid"
                => \A f \in SettingsFields :
                     loaded[f] = IF document.fields[f] = Absent
                                 THEN DEFAULT_SETTINGS[f] ELSE document.fields[f]]_vars

\* Startup read a file that names a provider and no voice.
C24_Witness ==
    /\ bot.constructed /\ bot.commands = 0
    /\ document.state = "valid"
    /\ document.fields.ttsProvider = "google"
    /\ document.fields.ttsVoice = Absent
    /\ bot.runtimeSettings.ttsProvider = "google"
    /\ bot.runtimeSettings.ttsVoice = "alloy"

\* C25 (as stated; refuted): a command that changes the service's provider
\* or voice issues a write of the document, and when a command's write has
\* settled the document names the provider and the voice the service uses.
C25_DocumentFollowsService ==
    [][/\ (bot'.commands > bot.commands /\ voice' # voice)
           => Len(writes') = Len(writes) + 1
       /\ Len(writes') < Len(writes)
           => /\ document'.state = "valid"
              /\ document'.fields.ttsProvider = voice'.provider
              /\ document'.fields.ttsVoice = voice'.voiceName]_vars

\* C26: every public voice operation (speak, AI voice, debug voice, leave)
\* ends by returning a string to its caller; none of them ends by throwing,
\* whether the client is not ready, reply generation fails or synthesis
\* fails.
C26_AlwaysReturnsString == op.outcome.kind \in {"none", "returned"}

\* A synthesis that reached the backend and was refused by it.
BackendRefuses(v, o) ==
    /\ o.name \in {"speak", "ai", "debug"}
    /\ ~ResponseOk(o.response)
    /\ Synthesis(v, "none", o.response).status = o.response.status

\* C27: when the backend refuses a synthesis, what a public voice operation
\* hands to the requester is the same whatever status and detail the backend
\* answered with: the same operation run with any other refusal ends with the
\* same text.
C27_TextIndependentOfDetail ==
    LET \* what operation o hands to its caller when run against service v
        Outcome(v, o) ==
            CASE o.name = "speak" -> VoiceSpeakCommand(v, o)
              [] o.name = "ai"    -> AiVoiceInteraction(v, o)
              [] o.name = "debug" -> VoiceDebugCommand(v, o)
              [] OTHER            -> LeaveVoiceCommand(o)
    IN
    (op.outcome # NoOutcome /\ BackendRefuses(voice, op)) =>
        \A r \in {x \in Responses : ~ResponseOk(x)} :
            Outcome(voice, [op EXCEPT !.response = r, !.outcome = NoOutcome]) = op.outcome

\* The order of the waits inside playAudioBuffer and flushSilenceFrames.
PipelineOrder ==
    {<<"queued", "awaitReady">>, <<"awaitReady", "awaitPlaying">>,
     <<"awaitPlaying", "awaitIdle">>, <<"awaitIdle", "flushPlaying">>,
     <<"flushPlaying", "flushIdle">>}
    \cup {<<pc, "done">> : pc \in {"awaitReady", "awaitPlaying", "awaitIdle",
                                    "flushPlaying", "flushIdle"}}

\* The task is in, or has been through, the silence flush.
FlushAttempted(t) == t.pc \in {"flushPlaying", "flushIdle"} \/ t.flush # "none"

\* C28: a task moves through its pipeline only in the order wait for Ready,
\* subscribe and play, primary started, primary finished, silence flush. The
\* primary resource is played only at the step where the wait for Ready
\* resolved, on a connection that is Ready, with the player subscribed; the
\* flush is attempted only at the step where the primary content finished
\* (the player still subscribed to a Ready connection), never by a task that
\* timed out waiting for the start or the end of the primary content.
C28_PipelineOrder ==
    /\ [](\A g \in Guilds : \A i \in TaskIds(g) :
            LET t == tasks[g][i] IN
            /\ t.pc \in {"awaitPlaying", "awaitIdle"} => t.played /\ t.subscribed
            /\ FlushAttempted(t) => t.played /\ t.failedAt = "none")
    /\ [][\A g \in Guilds : \A i \in TaskIds(g) :
            LET t == tasks[g][i]
                u == tasks'[g][i]
            IN  /\ u.pc # t.pc => <<t.pc, u.pc>> \in PipelineOrder
                /\ (u.played /\ ~t.played) =>
                      /\ t.pc = "awaitReady"
                      /\ conns[g][t.conn].status = "ready"
                      /\ u.subscribed
                /\ (FlushAttempted(u) /\ ~FlushAttempted(t)) =>
                      /\ t.pc = "awaitIdle"
                      /\ t.subscribed
                      /\ conns[g][t.conn].status = "ready"]_vars

C28_Witness ==
    \E g \in Guilds : \E i \in TaskIds(g) :
        /\ tasks[g][i].flush = "ok"
        /\ tasks[g][i].outcome = "ok"
        /\ tasks[g][i].played

\* The connections of a guild that have not been destroyed.
Live(g) == {c \in ConnIds(g) : conns[g][c].status # "destroyed"}

\* C29: a guild has at most one connection that is not destroyed, it is the
\* registered one, and no connection was ever joined while the guild was
\* still bound to a channel; while a task is playing or draining, a live
\* connection of its guild is the task's own and is bound to the channel the
\* task requested.
C29_OneLiveConnection ==
    \A g \in Guilds :
        /\ Cardinality(Live(g)) <= 1
        /\ Live(g) \subseteq {voiceConnections[g]}
        /\ \A c \in ConnIds(g) : conns[g][c].over = "none"
        /\ \A i \in TaskIds(g) : \A c \in Live(g) :
               tasks[g][i].pc \in PlayingOrDraining =>
                   c = tasks[g][i].conn /\ conns[g][c].channel = tasks[g][i].channel

C29_Witness ==
    \E g \in Guilds : \E i \in TaskIds(g) :
        /\ tasks[g][i].pc \in PlayingOrDraining
        /\ tasks[g][i].conn >= 2
        /\ Live(g) = {tasks[g][i].conn}
        /\ conns[g][1].channel # tasks[g][i].channel

\* C30: while a task of a guild is pending or running the guild has a map
\* entry, and it is the chain of the newest task; the cleanup of an older
\* task leaves that entry in place, so the chain a further enqueue would
\* follow is the newest task's, and every task but the first follows the
\* chain of the task enqueued before it.
C30_CleanupKeepsNewerChain ==
    /\ [](\A g \in Guilds :
            /\ (\E i \in TaskIds(g) : tasks[g][i].st \in {"pending", "running"})
                   => queues[g] = FinallyPromise(g, Len(tasks[g]))
            /\ \A i \in TaskIds(g) :
                   i > 1 => tasks[g][i].previous = FinallyPromise(g, i - 1))
    /\ [][\A g \in Guilds : \A i \in TaskIds(g) :
            (tasks'[g][i].cleaned /\ ~tasks[g][i].cleaned /\ i < Len(tasks[g])) =>
                /\ queues'[g] = queues[g]
                /\ PreviousOf(queues', g) = FinallyPromise(g, Len(tasks[g]))]_vars

C30_Witness ==
    \E g \in Guilds :
        /\ Len(tasks[g]) >= 2
        /\ tasks[g][1].cleaned
        /\ tasks[g][2].st \in {"pending", "running"}
        /\ queues[g] = FinallyPromise(g, 2)

\* C31: under a fair event loop every task enqueued for a guild eventually
\* starts and eventually finishes, whatever the connection and the player
\* do: no wait of the pipeline lasts forever and no guild's queue stalls.
C31_EveryTaskFinishes ==
    \A g \in Guilds : \A i \in Slots :
        /\ (i \in TaskIds(g)) ~> (i \in TaskIds(g) /\ tasks[g][i].st # "pending")
        /\ (i \in TaskIds(g)) ~> (i \in TaskIds(g) /\ tasks[g][i].st = "settled")

C31_Witness ==
    \E g \in Guilds :
        /\ Len(tasks[g]) >= 2
        /\ tasks[g][1].failedAt = "ready"
        /\ tasks[g][2].st = "settled"
        /\ tasks[g][2].outcome = "ok"

\* C32: on the step where the synthesis of a play request fails, the tasks,
\* the map entry, the connections and the registry of its guild stay as they
\* were; a guild gets a new task only on a step where the synthesis of one of
\* its requests returned, and that task is the request's. So the tasks of a
\* guild are exactly its requests whose synthesis returned.
C32_FailedSynthesisEnqueuesNothing ==
    /\ [](\A g \in Guilds :
            /\ \A r \in RequestIds(g) :
                   requests[g][r].result # "queued" => requests[g][r].task = 0
            /\ \A i \in TaskIds(g) :
                   /\ tasks[g][i].req \in RequestIds(g)
                   /\ requests[g][tasks[g][i].req].result = "queued"
                   /\ requests[g][tasks[g][i].req].task = i)
    /\ [][\A g \in Guilds :
            /\ \A r \in RequestIds(g) :
                   (/\ requests[g][r].pc = "synth"
                    /\ requests'[g][r].result = "notConfigured") =>
                       /\ tasks'[g] = tasks[g]
                       /\ queues'[g] = queues[g]
                       /\ conns'[g] = conns[g]
                       /\ voiceConnections'[g] = voiceConnections[g]
            /\ Len(tasks'[g]) # Len(tasks[g]) =>
                   /\ Len(tasks'[g]) = Len(tasks[g]) + 1
                   /\ \E r \in RequestIds(g) :
                          /\ requests[g][r].pc = "synth"
                          /\ requests'[g][r].result = "queued"
                          /\ tasks'[g][Len(tasks'[g])].req = r]_vars

C32_Witness ==
    \E g \in Guilds : \E r \in RequestIds(g) : \E i \in TaskIds(g) :
        /\ requests[g][r].result = "notConfigured"
        /\ tasks[g][i].st = "running"

\* C33: the step of an explicit leave changes no task and no map entry of
\* the guild, so what was pending stays pending; and a task that starts while
\* the guild has no registered connection joins its requested channel with a
\* new connection, which becomes the registered one.
C33_LeaveKeepsQueuedTasks ==
    [][\A g \in Guilds :
          /\ (\E c \in ConnIds(g) :
                 conns[g][c].destroyedBy # "leave" /\ conns'[g][c].destroyedBy = "leave")
                 => tasks'[g] = tasks[g] /\ queues'[g] = queues[g]
          /\ \A i \in TaskIds(g) :
                 (Starts(g, i) /\ voiceConnections[g] = NoConnection) =>
                     /\ Len(conns'[g]) = Len(conns[g]) + 1
                     /\ tasks'[g][i].conn = Len(conns'[g])
                     /\ voiceConnections'[g] = Len(conns'[g])
                     /\ conns'[g][Len(conns'[g])].channel = tasks[g][i].channel
                     /\ conns'[g][Len(conns'[g])].status = "signalling"]_vars

C33_Witness ==
    \E g \in Guilds : \E i \in TaskIds(g) :
        /\ tasks[g][i].conn >= 2
        /\ conns[g][tasks[g][i].conn - 1].destroyedBy = "leave"
        /\ conns[g][tasks[g][i].conn - 1].channel = tasks[g][i].channel
        /\ conns[g][tasks[g][i].conn].status = "ready"

\* C34: once the bot is constructed, and after any backend-switch and
\* voice-change commands, its current backend and current voice are the
\* provider and the voice name held by the VoiceService.
C34_BotAgreesWithService ==
    bot.constructed =>
        /\ bot.currentTtsProvider = voice.provider
        /\ bot.voicePreset = voice.voiceName

C34_Witness ==
    /\ bot.commands >= 2
    /\ bot.currentTtsProvider = "google" /\ voice.provider = "google"
    /\ bot.voicePreset = "sage" /\ voice.voiceName = "sage"

\* The backend switch the bot b would reject: the provider is not one of
\* openai, elevenlabs, google, or no voice comes out for it.
Rejected(b, provider, voiceArg) ==
    LET normalizedProvider == normalizeTtsProvider(provider) IN
    \/ normalizedProvider \notin {"openai", "elevenlabs", "google"}
    \/ NextVoice(b, normalizedProvider, voiceArg) = Null

\* C35: a backend-switch command that is rejected leaves the current
\* backend, the current voice, the settings to persist, the VoiceService, the
\* writes in flight and the settings document as they were, and returns one
\* of the two refusals.
C35_RejectedSwitchChangesNothing ==
    [][\A provider \in EngineProviders : \A v \in CommandVoices :
          (Rejected(bot, provider, v) /\ handleTtsEngineCommand(provider, v)) =>
              /\ bot'.currentTtsProvider = bot.currentTtsProvider
              /\ bot'.voicePreset = bot.voicePreset
              /\ bot'.runtimeSettings = bot.runtimeSettings
              /\ voice' = voice
              /\ writes' = writes
              /\ document' = document
              /\ bot'.returned \in {ComingSoon(normalizeTtsProvider(provider)), NeedVoice}]_vars

C35_Witness ==
    /\ bot.returned = NeedVoice
    /\ bot.currentTtsProvider = "google"
    /\ voice.provider = "google"

\* C36: a backend switch changes the selected backend and nothing else of
\* the service, and a synthesizeSpeech call goes out to the backend selected
\* at that moment exactly when the enable flag is set and that backend has
\* its credential; otherwise it throws "Voice output is disabled.". So after
\* any switches a call is refused on a backend without credential and is let
\* through again on one with a credential.
C36_AllowedBySelectedBackend ==
    [][/\ voice' # voice => voice' = [voice EXCEPT !.provider = voice'.provider]
       /\ CallStarts =>
             IF voice.enabled /\ ~CredentialAbsent(voice)
             THEN /\ call'.pc = "fetching"
                  /\ call'.backend = voice.provider
                  /\ call'.sent = 1
             ELSE /\ call'.pc = "done"
                  /\ call'.sent = 0
                  /\ call'.result.error = "Voice output is disabled."]_vars

\* A call was refused as disabled, and the service has since been switched
\* to a backend whose credential it holds.
C36_Witness ==
    /\ call.pc = "done"
    /\ call.result.error = "Voice output is disabled."
    /\ voice.enabled /\ ~CredentialAbsent(voice)
    /\ voice.provider = "openai"

\* The success messages of the two commands that persist.
Succeeded(reply) ==
    reply.text \in {"TTS provider set to ... using voice ...", "Updated TTS voice to ..."}

\* C37: when the write of a command settles, landed or failed, the command
\* returns its success message and the bot's backend and voice and the
\* VoiceService keep the values the command gave them; a failed write leaves
\* the document as it was, so it can differ from what is in memory.
C37_WriteFailureSwallowed ==
    /\ [](\A k \in 1..Len(writes) : Succeeded(writes[k].reply))
    /\ [][Len(writes') < Len(writes) =>
            /\ Succeeded(bot'.returned)
            /\ \E k \in 1..Len(writes) :
                   /\ bot'.returned = writes[k].reply
                   /\ document' \in {document, [state |-> "valid", fields |-> writes[k].settings]}
            /\ bot'.currentTtsProvider = bot.currentTtsProvider
            /\ bot'.voicePreset = bot.voicePreset
            /\ bot'.runtimeSettings = bot.runtimeSettings
            /\ voice' = voice]_vars

\* The only write failed: the command answered with its success message,
\* memory holds google, and there is still no document.
C37_Witness ==
    /\ bot.commands = 1
    /\ writes = <<>>
    /\ Succeeded(bot.returned)
    /\ document.state = "missing"
    /\ bot.currentTtsProvider = "google" /\ voice.provider = "google"

C39_GoogleFormat ==
    (call.backend = "google" /\ call.pc = "done" /\ call.result.kind = "ok") =>
        /\ call.format = Wanted
        /\ call.result.format = Wanted
        /\ (mapFormatToGoogleEncoding(call.format) = "LINEAR16") <=> (Wanted = "wav")
        /\ IF Wanted = "wav"
           THEN call.result.buffer = "wav header + audio"
           ELSE call.result.buffer = call.response.body

\* The Google backend was asked for wav on a service whose default is mp3
\* and gave the wrapped samples.
C39_Witness ==
    /\ call.pc = "done"
    /\ call.backend = "google"
    /\ call.formatOverride = "wav"
    /\ voice.audioFormat = "mp3"
    /\ call.result.format = "wav"
    /\ call.result.buffer = "wav header + audio"

====
